---- MODULE Spec2Model ----
(***************************************************************************)
(* A model of dfxml-rs: the streaming reader (src/src/reader.rs), the      *)
(* whole-document assembly helper parse(), the object model                *)
(* (src/src/objects), the writer (src/src/writer.rs) and the byte-run      *)
(* merge (ByteRuns::glom).                                                 *)
(*                                                                         *)
(* Conventions.  Option<T> is a sequence of length 0 (None) or 1 (Some).   *)
(* A String is a sequence of one-character strings, so that parsing and    *)
(* formatting are computed and not assumed.  A Vec is a sequence.          *)
(***************************************************************************)
EXTENDS Integers, Sequences, FiniteSets, TLC

None == <<>>

Some(x) == <<x>>

IsSome(o) == Len(o) > 0

IsNone(o) == Len(o) = 0

Unwrap(o) == o[1]

Last(s) == s[Len(s)]

Front(s) == SubSeq(s, 1, Len(s) - 1)

RECURSIVE Concat(_)
Concat(ss) ==
    IF ss = <<>> THEN <<>> ELSE Head(ss) \o Concat(Tail(ss))

(***************************************************************************)
(* Strings and the conversions of the standard library the reader calls.   *)
(***************************************************************************)
Digits == {"0", "1", "2", "3", "4", "5", "6", "7", "8", "9"}

DigitVal(c) ==
    CASE c = "0" -> 0 [] c = "1" -> 1 [] c = "2" -> 2 [] c = "3" -> 3
      [] c = "4" -> 4 [] c = "5" -> 5 [] c = "6" -> 6 [] c = "7" -> 7
      [] c = "8" -> 8 [] c = "9" -> 9

DigitChar(n) ==
    CASE n = 0 -> "0" [] n = 1 -> "1" [] n = 2 -> "2" [] n = 3 -> "3"
      [] n = 4 -> "4" [] n = 5 -> "5" [] n = 6 -> "6" [] n = 7 -> "7"
      [] n = 8 -> "8" [] n = 9 -> "9"

\* char::to_lowercase on the letters the model's texts use
LowerChar(c) ==
    CASE c = "T" -> "t" [] c = "R" -> "r" [] c = "U" -> "u" [] c = "E" -> "e"
      [] c = "F" -> "f" [] c = "A" -> "a" [] c = "L" -> "l" [] c = "S" -> "s"
      [] c = "M" -> "m" [] c = "D" -> "d" [] c = "B" -> "b" [] c = "C" -> "c"
      [] OTHER -> c

\* str::to_lowercase
ToLowercase(s) == [i \in 1..Len(s) |-> LowerChar(s[i])]

IsSpace(c) == c = " "

\* str::trim
RECURSIVE TrimStart(_)
TrimStart(s) ==
    IF s # <<>> /\ IsSpace(Head(s)) THEN TrimStart(Tail(s)) ELSE s

RECURSIVE TrimEnd(_)
TrimEnd(s) ==
    IF s # <<>> /\ IsSpace(Last(s)) THEN TrimEnd(Front(s)) ELSE s

Trim(s) == TrimEnd(TrimStart(s))

AllDigits(s) == \A i \in 1..Len(s) : s[i] \in Digits

RECURSIVE DecValue(_)
DecValue(ds) ==
    IF ds = <<>> THEN 0 ELSE DecValue(Front(ds)) * 10 + DigitVal(Last(ds))

\* The model's numbers stay far below 2^32, so no parse overflows.
\* str::parse::<u64>, ::<u32>, ::<u8>: an optional '+', then one or more digits
ParseUnsigned(s) ==
    LET body == IF s # <<>> /\ Head(s) = "+" THEN Tail(s) ELSE s
    IN  IF body # <<>> /\ AllDigits(body) THEN Some(DecValue(body)) ELSE None

\* str::parse::<i32>: an optional '+' or '-', then one or more digits
ParseSigned(s) ==
    LET neg  == s # <<>> /\ Head(s) = "-"
        body == IF s # <<>> /\ Head(s) \in {"+", "-"} THEN Tail(s) ELSE s
    IN  IF body # <<>> /\ AllDigits(body)
        THEN Some(IF neg THEN 0 - DecValue(body) ELSE DecValue(body))
        ELSE None

\* u64::to_string
RECURSIVE ToDecString(_)
ToDecString(n) ==
    IF n < 10 THEN <<DigitChar(n)>>
    ELSE Append(ToDecString(n \div 10), DigitChar(n % 10))

Str1 == <<"1">>

Str0 == <<"0">>

StrTrue == <<"t", "r", "u", "e">>

StrFalse == <<"f", "a", "l", "s", "e">>

parse_bool(s) ==
    LET l == ToLowercase(s)
    IN  IF l = Str1 \/ l = StrTrue THEN Some(TRUE)
        ELSE IF l = Str0 \/ l = StrFalse THEN Some(FALSE)
        ELSE None

(***************************************************************************)
(* Common value types (src/src/objects/common.rs).                         *)
(***************************************************************************)
\* "2.0.0-beta.0", kept as one token: the model never parses a version
DFXML_VERSION == <<"2.0.0-beta.0">>

XMLNS_DFXML == <<"http://www.forensicswiki.org/wiki/Category:Digital_Forensics_XML">>

XMLNS_DC == <<"http://purl.org/dc/elements/1.1/">>

XMLNS_DELTA == <<"http://www.forensicswiki.org/wiki/Forensic_Disk_Differencing">>

XMLNS_DFXML_EXT ==
    <<"http://www.forensicswiki.org/wiki/Category:Digital_Forensics_XML#extensions">>

HashTypes == {"md5", "sha1", "sha224", "sha256", "sha384", "sha512", "md6"}

StrMd5 == <<"m", "d", "5">>

StrSha1 == <<"s", "h", "a", "1">>

\* HashType::from_str; md5 and sha1 are spelt out, the other five names
\* are kept as one token each
HashTypeFromStr(s) ==
    LET l == ToLowercase(s)
    IN  IF l = StrMd5 THEN Some("md5")
        ELSE IF l = StrSha1 THEN Some("sha1")
        ELSE IF Len(l) = 1 /\ l[1] \in HashTypes THEN Some(l[1])
        ELSE None

\* HashType::as_str, as attribute text
HashTypeAsStr(t) ==
    IF t = "md5" THEN StrMd5 ELSE IF t = "sha1" THEN StrSha1 ELSE <<t>>

HashesNew == [t \in HashTypes |-> None]

HashesHasAny(h) == \E t \in HashTypes : IsSome(h[t])

HashesSetShared(h, t, value) ==
    [h EXCEPT ![IF t = "sha224" THEN "sha256" ELSE t] = Some(ToLowercase(value))]

HashesSet(h, t, value) == [h EXCEPT ![t] = Some(ToLowercase(value))]

StrData == <<"d", "a", "t", "a">>

StrInode == <<"i", "n", "o", "d", "e">>

StrName == <<"n", "a", "m", "e">>

\* ByteRunFacet::from_str
FacetFromStr(s) ==
    IF s = StrData \/ s = <<>> THEN Some("Data")
    ELSE IF s = StrInode THEN Some("Inode")
    ELSE IF s = StrName THEN Some("Name")
    ELSE None

\* ByteRunFacet::as_str
FacetAsStr(f) ==
    IF f = "Data" THEN StrData ELSE IF f = "Inode" THEN StrInode ELSE StrName

\* ByteRunType::from_str: never fails, lower-cases the text
RunTypeFromStr(s) ==
    LET l == ToLowercase(s)
    IN  IF l = <<"r", "e", "s", "i", "d", "e", "n", "t">>
        THEN Some([tag |-> "Resident", text |-> <<>>])
        ELSE Some([tag |-> "Other", text |-> l])

StrD == <<"d">>

StrS == <<"s">>

StrMs == <<"m", "s">>

StrNs == <<"n", "s">>

\* TimeUnit::from_str
TimeUnitFromStr(s) ==
    IF s = StrD THEN Some("Day")
    ELSE IF s = StrS \/ s = <<>> THEN Some("Second")
    ELSE IF s = StrMs THEN Some("Millisecond")
    ELSE IF s = StrNs THEN Some("Nanosecond")
    ELSE None

\* The index of the first character that is neither a digit nor '-',
\* counted from 0; Len(s) when there is none.
RECURSIVE DigitEnd(_)
DigitEnd(s) ==
    IF s = <<>> \/ ~(Head(s) \in Digits \/ Head(s) = "-") THEN 0
    ELSE 1 + DigitEnd(Tail(s))

\* Precision::from_str
PrecisionFromStr(raw) ==
    LET s   == Trim(raw)
        de  == DigitEnd(s)
        res == ParseSigned(SubSeq(s, 1, de))
        u   == IF de = Len(s) THEN Some("Second")
               ELSE TimeUnitFromStr(SubSeq(s, de + 1, Len(s)))
    IN  IF s = <<>> \/ de = 0 \/ IsNone(res) \/ IsNone(u) THEN None
        ELSE Some([resolution |-> Unwrap(res), unit |-> Unwrap(u)])

\* The two timestamp texts the model's inputs use, each one token.
TsZulu == <<"2024-01-15T10:30:00Z">>

TsOffset == <<"2024-01-15T10:30:00+00:00">>

\* Timestamp::parse_iso8601: chrono decides; both texts name the instant
\* 1705314600 s after the epoch at offset 0, any other text is rejected.
parse_iso8601(s) ==
    IF s = TsZulu \/ s = TsOffset
    THEN Some([secs |-> 1705314600, offset |-> 0])
    ELSE None

\* DateTime::to_rfc3339 of the instants parse_iso8601 yields
to_rfc3339(t) == TsOffset

TimestampNew == [name |-> None, time |-> None, prec |-> None]

ByteRunNew ==
    [img_offset |-> None, fs_offset |-> None, file_offset |-> None,
     len |-> None, fill |-> None, run_type |-> None,
     uncompressed_len |-> None, hashes |-> HashesNew]

ByteRunsNew == [facet |-> None, runs |-> <<>>]

\* Externals::new
ExternalsNew == [elements |-> <<>>]

(***************************************************************************)
(* The entity object model (src/src/objects).  Every constructor leaves    *)
(* the optional fields absent and the child lists empty.                   *)
(***************************************************************************)
TimestampNames == {"mtime", "atime", "ctime", "crtime", "dtime", "bkup_time"}

FileObjectNew ==
    [id |-> None, filename |-> None, inode |-> None, partition |-> None,
     alloc |-> None, alloc_inode |-> None, alloc_name |-> None,
     meta_type |-> None, filesize |-> None,
     mtime |-> None, atime |-> None, ctime |-> None, crtime |-> None,
     dtime |-> None, bkup_time |-> None,
     mode |-> None, hashes |-> HashesNew,
     data_brs |-> None, inode_brs |-> None, name_brs |-> None,
     error |-> None]

VolumeObjectNew ==
    [sector_size |-> None, block_size |-> None, ftype_str |-> None,
     error |-> None, byte_runs |-> None,
     files |-> <<>>, volumes |-> <<>>, disk_images |-> <<>>]

PartitionObjectNew ==
    [partition_index |-> None, ptype_str |-> None, block_size |-> None,
     byte_runs |-> None,
     volumes |-> <<>>, files |-> <<>>, partitions |-> <<>>,
     partition_systems |-> <<>>]

PartitionSystemObjectNew ==
    [pstype_str |-> None, error |-> None, byte_runs |-> None,
     partitions |-> <<>>, files |-> <<>>]

DiskImageObjectNew ==
    [image_filename |-> None, image_size |-> None, sector_size |-> None,
     error |-> None, byte_runs |-> None,
     partition_systems |-> <<>>, partitions |-> <<>>, volumes |-> <<>>,
     files |-> <<>>]

LibraryObjectEmpty == [name |-> None, version |-> None]

insert(map, prefix, uri) ==
    [p \in DOMAIN map \cup {prefix} |-> IF p = prefix THEN uri ELSE map[p]]

\* HashMap::entry(prefix).or_insert_with(|| uri): the map from prefixes to URIs
or_insert_with(map, prefix, uri) ==
    IF prefix \in DOMAIN map THEN map ELSE map @@ (prefix :> uri)

\* DFXMLObject::add_namespace
add_namespace(d, prefix, uri) ==
    [d EXCEPT !.namespaces = or_insert_with(@, prefix, uri)]

\* The calls of add_namespace that DFXMLObject::new makes, in order
DefaultNamespaces ==
    << <<<<>>, XMLNS_DFXML>>, <<<<"dc">>, XMLNS_DC>>, <<<<"delta">>, XMLNS_DELTA>>,
       <<<<"dfxmlext">>, XMLNS_DFXML_EXT>> >>

RECURSIVE AddNamespaces(_, _)
AddNamespaces(d, calls) ==
    IF calls = <<>> THEN d
    ELSE AddNamespaces(add_namespace(d, Head(calls)[1], Head(calls)[2]), Tail(calls))

\* Default::default()
DFXMLObjectDefault ==
    [version |-> <<>>, program |-> None, program_version |-> None,
     command_line |-> None, sources |-> <<>>,
     creator_libraries |-> <<>>, build_libraries |-> <<>>,
     disk_images |-> <<>>, partition_systems |-> <<>>, partitions |-> <<>>,
     volumes |-> <<>>, files |-> <<>>, namespaces |-> <<>>]

DFXMLObjectNew ==
    AddNamespaces([DFXMLObjectDefault EXCEPT !.version = DFXML_VERSION], DefaultNamespaces)

\* The typed append operations: each pushes onto the list of its kind.
append_file(c, f) == [c EXCEPT !.files = Append(@, f)]

append_volume(c, v) == [c EXCEPT !.volumes = Append(@, v)]

append_disk_image(c, di) == [c EXCEPT !.disk_images = Append(@, di)]

append_partition(c, p) == [c EXCEPT !.partitions = Append(@, p)]

append_partition_system(c, ps) == [c EXCEPT !.partition_systems = Append(@, ps)]

add_creator_library(d, lib) == [d EXCEPT !.creator_libraries = Append(@, lib)]

add_build_library(d, lib) == [d EXCEPT !.build_libraries = Append(@, lib)]

\* FileObject::set_timestamp
set_timestamp(f, name, ts) == [f EXCEPT ![name] = Some(ts)]

\* MetaType::from_code
MetaTypeFromCode(code) ==
    CASE code = 1 -> "Regular" [] code = 2 -> "Directory"
      [] code = 3 -> "SymbolicLink" [] code = 4 -> "BlockDevice"
      [] code = 5 -> "CharacterDevice" [] code = 6 -> "Fifo"
      [] code = 7 -> "Socket" [] code = 8 -> "Shadow"
      [] code = 9 -> "Virtual" [] OTHER -> "Unknown"

(***************************************************************************)
(* The streaming reader (src/src/reader.rs).  A reader value is the        *)
(* DFXMLReader struct without the tokenizer and its buffer.                *)
(***************************************************************************)
ElementContextDefault == [path |-> <<>>, text |-> <<>>, attrs |-> <<>>]

\* ElementContext::push
ContextPush(ctx, name) ==
    [path |-> Append(ctx.path, name), text |-> <<>>, attrs |-> <<>>]

\* ElementContext::pop
ContextPop(ctx) ==
    [path |-> IF ctx.path = <<>> THEN <<>> ELSE Front(ctx.path),
     text |-> <<>>, attrs |-> <<>>]

\* DFXMLReader::from_reader
ReaderNew ==
    [state |-> "Initial", state_stack |-> <<>>,
     context |-> ElementContextDefault,
     dfxml |-> None, disk_image |-> None, partition_system |-> None,
     partition |-> None, volume |-> None, file |-> None,
     byte_runs |-> None, current_byte_run |-> None,
     current_timestamp |-> None, current_library |-> None,
     in_byte_runs |-> FALSE, byte_runs_facet |-> None,
     pending_events |-> <<>>]

Ev(type, obj) == [type |-> type, obj |-> obj]

\* The value of the last attribute named key (a loop that assigns on each match)
RECURSIVE LastAttr(_, _)
LastAttr(attrs, key) ==
    IF attrs = <<>> THEN None
    ELSE IF Last(attrs)[1] = key THEN Some(Last(attrs)[2])
    ELSE LastAttr(Front(attrs), key)

\* The value of the first attribute named key (iter().find)
RECURSIVE FirstAttr(_, _)
FirstAttr(attrs, key) ==
    IF attrs = <<>> THEN None
    ELSE IF Head(attrs)[1] = key THEN Some(Head(attrs)[2])
    ELSE FirstAttr(Tail(attrs), key)

\* DFXMLReader::parse_byte_run_attrs: the attributes in order, each
\* assigning its field; fill keeps its old value when the text is no u8
RECURSIVE parse_byte_run_attrs(_, _)
parse_byte_run_attrs(attrs, br) ==
    IF attrs = <<>> THEN br
    ELSE
      LET key   == Head(attrs)[1]
          value == Head(attrs)[2]
          fill  == ParseUnsigned(value)
          br1 ==
            CASE key = "img_offset" -> [br EXCEPT !.img_offset = ParseUnsigned(value)]
              [] key = "fs_offset" -> [br EXCEPT !.fs_offset = ParseUnsigned(value)]
              [] key = "file_offset" -> [br EXCEPT !.file_offset = ParseUnsigned(value)]
              [] key = "len" -> [br EXCEPT !.len = ParseUnsigned(value)]
              [] key = "fill" ->
                   IF IsSome(fill) /\ Unwrap(fill) <= 255
                   THEN [br EXCEPT !.fill = fill] ELSE br
              [] key = "type" -> [br EXCEPT !.run_type = RunTypeFromStr(value)]
              [] key = "uncompressed_len" ->
                   [br EXCEPT !.uncompressed_len = ParseUnsigned(value)]
              [] OTHER -> br
      IN  parse_byte_run_attrs(Tail(attrs), br1)

PushState(r, s) == [r EXCEPT !.state_stack = Append(@, r.state), !.state = s]

\* a reader that returns to the saved state and leaves it on the stack
PopStateKeep(r) ==
    IF r.state_stack = <<>> THEN [r EXCEPT !.state = "InDfxml"]
    ELSE [r EXCEPT !.state = Last(r.state_stack)]

\* self.state = self.state_stack.pop().unwrap_or(ParserState::InDfxml)
PopState(r) ==
    IF r.state_stack = <<>> THEN [r EXCEPT !.state = "InDfxml"]
    ELSE [r EXCEPT !.state = Last(r.state_stack), !.state_stack = Front(@)]

Ret(r, ev) == [r |-> r, ev |-> ev]

\* The match of handle_start_owned, r being the reader after context.push
StartMatch(r, local_name, attrs, ver, facet, prec) ==
    CASE local_name = "dfxml" ->
           LET dfxml == IF IsSome(ver) THEN [DFXMLObjectNew EXCEPT !.version = Unwrap(ver)]
                        ELSE DFXMLObjectNew
           IN  Ret([r EXCEPT !.dfxml = Some(dfxml), !.state = "InDfxml"],
                   Some(Ev("DFXMLStart", Some(dfxml))))
      [] local_name = "diskimageobject" ->
           Ret([PushState(r, "InDiskImage") EXCEPT !.disk_image = Some(DiskImageObjectNew)], None)
      [] local_name = "partitionsystemobject" ->
           Ret([PushState(r, "InPartitionSystem") EXCEPT
                   !.partition_system = Some(PartitionSystemObjectNew)], None)
      [] local_name = "partitionobject" ->
           Ret([PushState(r, "InPartition") EXCEPT !.partition = Some(PartitionObjectNew)], None)
      [] local_name = "volume" ->
           Ret([PushState(r, "InVolume") EXCEPT !.volume = Some(VolumeObjectNew)], None)
      [] local_name = "fileobject" ->
           Ret([PushState(r, "InFileObject") EXCEPT !.file = Some(FileObjectNew)], None)
      [] local_name = "creator" -> Ret(PushState(r, "InCreator"), None)
      [] local_name = "build_environment" -> Ret(PushState(r, "InBuildEnvironment"), None)
      [] local_name = "byte_runs" ->
           LET f == IF IsSome(facet) THEN FacetFromStr(Unwrap(facet)) ELSE r.byte_runs_facet
           IN  Ret([r EXCEPT !.in_byte_runs = TRUE,
                             !.byte_runs_facet = f,
                             !.byte_runs = Some(IF IsSome(facet)
                                                THEN [ByteRunsNew EXCEPT !.facet = f]
                                                ELSE ByteRunsNew)], None)
      [] local_name = "byte_run" ->
           Ret([r EXCEPT !.current_byte_run = Some(parse_byte_run_attrs(attrs, ByteRunNew))], None)
      [] local_name = "library" ->
           Ret([r EXCEPT !.current_library =
                   Some([name |-> LastAttr(attrs, "name"),
                         version |-> LastAttr(attrs, "version")])], None)
      [] local_name \in TimestampNames ->
           LET ts == [TimestampNew EXCEPT
                         !.name = Some(local_name),
                         !.prec = IF IsSome(prec) THEN PrecisionFromStr(Unwrap(prec)) ELSE None]
           IN  Ret([r EXCEPT !.current_timestamp = Some(<<local_name, ts>>)], None)
      [] OTHER -> Ret(r, None)

\* DFXMLReader::handle_start_owned
handle_start_owned(r0, local_name, attrs) ==
    StartMatch([r0 EXCEPT !.context = [ContextPush(@, local_name) EXCEPT !.attrs = attrs]],
               local_name, attrs,
               LastAttr(attrs, "version"), LastAttr(attrs, "facet"), LastAttr(attrs, "prec"))

\* if let Some(ref mut file) = self.file { file.<field> = value }
SetFile(r, field, value) ==
    IF IsSome(r.file) THEN [r EXCEPT !.file = Some([Unwrap(@) EXCEPT ![field] = value])]
    ELSE r

SetVolume(r, field, value) ==
    IF IsSome(r.volume) THEN [r EXCEPT !.volume = Some([Unwrap(@) EXCEPT ![field] = value])]
    ELSE r

SetPartition(r, field, value) ==
    IF IsSome(r.partition)
    THEN [r EXCEPT !.partition = Some([Unwrap(@) EXCEPT ![field] = value])]
    ELSE r

SetPartitionSystem(r, field, value) ==
    IF IsSome(r.partition_system)
    THEN [r EXCEPT !.partition_system = Some([Unwrap(@) EXCEPT ![field] = value])]
    ELSE r

SetDiskImage(r, field, value) ==
    IF IsSome(r.disk_image)
    THEN [r EXCEPT !.disk_image = Some([Unwrap(@) EXCEPT ![field] = value])]
    ELSE r

SetDfxml(r, field, value) ==
    IF IsSome(r.dfxml) THEN [r EXCEPT !.dfxml = Some([Unwrap(@) EXCEPT ![field] = value])]
    ELSE r

\* DFXMLReader::apply_byte_runs: the open container is chosen by the state
apply_byte_runs(r, brs) ==
    CASE r.state = "InFileObject" ->
           IF r.byte_runs_facet = Some("Inode") THEN SetFile(r, "inode_brs", Some(brs))
           ELSE IF r.byte_runs_facet = Some("Name") THEN SetFile(r, "name_brs", Some(brs))
           ELSE SetFile(r, "data_brs", Some(brs))
      [] r.state = "InVolume" -> SetVolume(r, "byte_runs", Some(brs))
      [] r.state = "InPartition" -> SetPartition(r, "byte_runs", Some(brs))
      [] r.state = "InPartitionSystem" -> SetPartitionSystem(r, "byte_runs", Some(brs))
      [] r.state = "InDiskImage" -> SetDiskImage(r, "byte_runs", Some(brs))
      [] OTHER -> r

\* u32::from_str_radix(s, 8): an optional '+', then one or more octal digits
RECURSIVE OctValue(_)
OctValue(ds) ==
    IF ds = <<>> THEN 0 ELSE OctValue(Front(ds)) * 8 + DigitVal(Last(ds))

ParseOctal(s) ==
    LET body == IF s # <<>> /\ Head(s) = "+" THEN Tail(s) ELSE s
    IN  IF body # <<>> /\ (\A i \in 1..Len(body) : body[i] \in Digits /\ DigitVal(body[i]) < 8)
        THEN Some(OctValue(body)) ELSE None

\* str::trim_start_matches('0')
RECURSIVE TrimStartZeros(_)
TrimStartZeros(s) ==
    IF s # <<>> /\ Head(s) = "0" THEN TrimStartZeros(Tail(s)) ELSE s

\* the mode leaf: octal when the text starts with '0', decimal otherwise
ParseMode(text) ==
    IF text # <<>> /\ Head(text) = "0" THEN ParseOctal(TrimStartZeros(text))
    ELSE ParseUnsigned(text)

\* A close arm that takes the object out of the reader but does not return it
TakeContainerDropped(r1, slot, evtype) ==
    IF IsSome(r1[slot]) /\ evtype = "FileObject"
    THEN Ret([r1 EXCEPT ![slot] = None], None)
    ELSE IF IsSome(r1[slot])
    THEN Ret([r1 EXCEPT ![slot] = None], Some(Ev(evtype, r1[slot])))
    ELSE Ret(r1, None)

\* The container arms of handle_end_owned: restore the state, take the
\* in-progress object out of the reader and carry it in the event.
TakeContainer(r1, slot, evtype) ==
    IF IsSome(r1[slot])
    THEN Ret([r1 EXCEPT ![slot] = None], Some(Ev(evtype, r1[slot])))
    ELSE Ret(r1, None)

EndContainer(r, slot, evtype) == TakeContainer(PopState(r), slot, evtype)

\* The "byte_runs" arm: the finished list goes to the open container
EndByteRuns(r1) ==
    IF IsSome(r1.byte_runs)
    THEN apply_byte_runs([r1 EXCEPT !.byte_runs = None], Unwrap(r1.byte_runs))
    ELSE r1

\* The "library" arm, lib being the library taken out of current_library
EndLibrary(r, r1, lib) ==
    IF r.state = "InCreator" /\ IsSome(r.dfxml)
    THEN Ret([r1 EXCEPT !.dfxml = Some(add_creator_library(Unwrap(@), lib))], None)
    ELSE IF r.state = "InBuildEnvironment" /\ IsSome(r.dfxml)
    THEN Ret([r1 EXCEPT !.dfxml = Some(add_build_library(Unwrap(@), lib))], None)
    ELSE Ret(r1, None)

\* The timestamp arm, (name, ts) being the pair taken out of current_timestamp
EndTimestamp(r1, name, ts) ==
    IF IsSome(r1.file)
    THEN Ret([r1 EXCEPT !.file = Some(set_timestamp(Unwrap(@), name, ts))], None)
    ELSE Ret(r1, None)

\* The "hashdigest" arm, hash being the parsed type attribute
EndHashDigest(r, hash, text) ==
    IF IsSome(hash)
    THEN IF IsSome(r.current_byte_run)
         THEN Ret([r EXCEPT !.current_byte_run =
                     Some([Unwrap(@) EXCEPT !.hashes = HashesSet(@, Unwrap(hash), text)])],
                  None)
         ELSE IF IsSome(r.file)
         THEN Ret([r EXCEPT !.file =
                     Some([Unwrap(@) EXCEPT !.hashes = HashesSet(@, Unwrap(hash), text)])],
                  None)
         ELSE Ret(r, None)
    ELSE Ret(r, None)

\* The "meta_type" arm, code being the parsed text
EndMetaType(r, code) ==
    IF IsSome(code)
    THEN Ret(SetFile(r, "meta_type", Some(MetaTypeFromCode(Unwrap(code)))), None)
    ELSE Ret(r, None)

\* Some(type) of the first "type" attribute that names a hash algorithm
HashTypeOf(htype) == IF IsSome(htype) THEN HashTypeFromStr(Unwrap(htype)) ELSE None

\* The match of handle_end_owned, r being the reader after context.pop
EndMatch(r, local_name, text, attrs) ==
    CASE local_name = "dfxml" ->
           Ret([r EXCEPT !.state = "Done", !.dfxml = None],
               Some(Ev("DFXMLEnd", IF IsSome(r.dfxml) THEN r.dfxml ELSE Some(DFXMLObjectNew))))
      [] local_name = "diskimageobject" -> EndContainer(r, "disk_image", "DiskImageStart")
      [] local_name = "partitionsystemobject" ->
           EndContainer(r, "partition_system", "PartitionSystemStart")
      [] local_name = "partitionobject" -> EndContainer(r, "partition", "PartitionStart")
      [] local_name = "volume" -> EndContainer(r, "volume", "VolumeStart")
      [] local_name = "fileobject" -> EndContainer(r, "file", "FileObject")
      [] local_name = "creator" -> Ret(PopState(r), None)
      [] local_name = "build_environment" -> Ret(PopState(r), None)
      [] local_name = "byte_runs" ->
           Ret([EndByteRuns([r EXCEPT !.in_byte_runs = FALSE]) EXCEPT
                   !.byte_runs_facet = None], None)
      [] local_name = "byte_run" ->
           IF IsSome(r.current_byte_run)
           THEN Ret([r EXCEPT !.current_byte_run = None,
                              !.byte_runs =
                                 IF IsSome(@)
                                 THEN Some([Unwrap(@) EXCEPT
                                              !.runs = Append(@, Unwrap(r.current_byte_run))])
                                 ELSE @], None)
           ELSE Ret(r, None)
      [] local_name = "library" ->
           IF IsSome(r.current_library)
           THEN EndLibrary(r, [r EXCEPT !.current_library = None],
                           Unwrap(r.current_library))
           ELSE Ret(r, None)
      [] local_name \in TimestampNames ->
           IF IsSome(r.current_timestamp)
           THEN EndTimestamp([r EXCEPT !.current_timestamp = None],
                             Unwrap(r.current_timestamp)[1],
                             IF text # <<>>
                             THEN [Unwrap(r.current_timestamp)[2] EXCEPT
                                      !.time = parse_iso8601(text)]
                             ELSE Unwrap(r.current_timestamp)[2])
           ELSE Ret(r, None)
      [] local_name = "hashdigest" ->
           EndHashDigest(r, HashTypeOf(FirstAttr(attrs, "type")), text)
      \* File object simple properties
      [] local_name = "filename" -> Ret(SetFile(r, "filename", Some(text)), None)
      [] local_name = "filesize" -> Ret(SetFile(r, "filesize", ParseUnsigned(text)), None)
      [] local_name = "inode" -> Ret(SetFile(r, "inode", ParseUnsigned(text)), None)
      [] local_name = "partition" -> Ret(SetFile(r, "partition", ParseUnsigned(text)), None)
      [] local_name = "id" -> Ret(SetFile(r, "id", ParseUnsigned(text)), None)
      [] local_name = "meta_type" -> EndMetaType(r, ParseSigned(text))
      [] local_name = "mode" -> Ret(SetFile(r, "mode", ParseMode(text)), None)
      [] local_name = "alloc" -> Ret(SetFile(r, "alloc", parse_bool(text)), None)
      [] local_name = "alloc_inode" -> Ret(SetFile(r, "alloc_inode", parse_bool(text)), None)
      [] local_name = "alloc_name" -> Ret(SetFile(r, "alloc_name", parse_bool(text)), None)
      [] local_name = "error" ->
           CASE r.state = "InFileObject" -> Ret(SetFile(r, "error", Some(text)), None)
             [] r.state = "InVolume" -> Ret(SetVolume(r, "error", Some(text)), None)
             [] r.state = "InPartitionSystem" ->
                  Ret(SetPartitionSystem(r, "error", Some(text)), None)
             [] r.state = "InDiskImage" -> Ret(SetDiskImage(r, "error", Some(text)), None)
             [] OTHER -> Ret(r, None)
      \* Volume properties
      [] local_name = "ftype_str" -> Ret(SetVolume(r, "ftype_str", Some(text)), None)
      [] local_name = "block_size" -> Ret(SetVolume(r, "block_size", ParseUnsigned(text)), None)
      [] local_name = "sector_size" -> Ret(SetVolume(r, "sector_size", ParseUnsigned(text)), None)
      \* DFXML metadata
      [] local_name = "program" -> Ret(SetDfxml(r, "program", Some(text)), None)
      [] local_name = "version" /\ r.state = "InCreator" ->
           Ret(SetDfxml(r, "program_version", Some(text)), None)
      [] local_name = "command_line" -> Ret(SetDfxml(r, "command_line", Some(text)), None)
      [] local_name = "image_filename" ->
           IF IsSome(r.dfxml)
           THEN Ret([r EXCEPT !.dfxml = Some([Unwrap(@) EXCEPT !.sources = Append(@, text)])], None)
           ELSE Ret(r, None)
      \* Partition system properties
      [] local_name = "pstype_str" -> Ret(SetPartitionSystem(r, "pstype_str", Some(text)), None)
      \* Partition properties
      [] local_name = "ptype_str" -> Ret(SetPartition(r, "ptype_str", Some(text)), None)
      [] local_name = "partition_index" ->
           Ret(SetPartition(r, "partition_index", ParseUnsigned(text)), None)
      \* Disk image properties
      [] local_name = "imagesize" -> Ret(SetDiskImage(r, "image_size", ParseUnsigned(text)), None)
      [] OTHER -> Ret(r, None)

\* DFXMLReader::handle_end_owned
handle_end_owned(r0, local_name) ==
    EndMatch([r0 EXCEPT !.context = ContextPop(@)], local_name,
             Trim(r0.context.text), r0.context.attrs)

(***************************************************************************)
(* Input tokens: what the tokenizer hands to parse_next.                   *)
(***************************************************************************)
Tok(kind, name, attrs, text) ==
    [kind |-> kind, name |-> name, attrs |-> attrs, text |-> text]

TStart(name, attrs) == Tok("Start", name, attrs, <<>>)

TEnd(name) == Tok("End", name, <<>>, <<>>)

TEmpty(name, attrs) == Tok("Empty", name, attrs, <<>>)

TText(text) == Tok("Text", "", <<>>, text)

TEof == Tok("Eof", "", <<>>, <<>>)

\* the XML declaration
TDecl == Tok("Decl", "", <<>>, <<>>)

\* One turn of the loop of parse_next: the token is handled and ret tells
\* whether parse_next returns (ev is then the event, None at end of input).
\* if let Some(ev) = handler(..)? { return Ok(Some(ev)) }
ReturnIfEvent(h) == [r |-> h.r, ev |-> h.ev, ret |-> IsSome(h.ev)]

\* The Empty arm after handle_start_owned: its event is parked
ParkEvent(s) ==
    IF IsSome(s.ev) THEN [s.r EXCEPT !.pending_events = Append(@, Unwrap(s.ev))] ELSE s.r

\* The Empty arm after handle_end_owned: its event, or else a parked one
ReturnOrPop(e) ==
    IF IsSome(e.ev) THEN [r |-> e.r, ev |-> e.ev, ret |-> TRUE]
    ELSE IF e.r.pending_events # <<>>
    THEN [r   |-> [e.r EXCEPT !.pending_events = Front(@)],
          ev  |-> Some(Last(e.r.pending_events)),
          ret |-> TRUE]
    ELSE [r |-> e.r, ev |-> None, ret |-> FALSE]

ProcessToken(r, tok) ==
    CASE tok.kind = "Start" ->
           ReturnIfEvent(handle_start_owned(r, tok.name, tok.attrs))
      [] tok.kind = "End" ->
           ReturnIfEvent(handle_end_owned(r, tok.name))
      [] tok.kind = "Empty" ->
           ReturnOrPop(handle_end_owned(
               ParkEvent(handle_start_owned(r, tok.name, tok.attrs)), tok.name))
      [] tok.kind = "Text" ->
           [r   |-> [r EXCEPT !.context.text = @ \o tok.text],
            ev  |-> None, ret |-> FALSE]
      [] tok.kind = "Eof" ->
           [r |-> [r EXCEPT !.state = "Done"], ev |-> None, ret |-> TRUE]
      \* any other event of the tokenizer (declaration, comment, ...) is skipped
      [] OTHER -> [r |-> r, ev |-> None, ret |-> FALSE]

(***************************************************************************)
(* parse(): the whole-document assembly, one fold step per event.          *)
(***************************************************************************)
ParseNew ==
    [dfxml |-> None, volume_stack |-> <<>>, partition_stack |-> <<>>,
     partition_system_stack |-> <<>>, disk_image_stack |-> <<>>]

\* stack.last_mut() receives one more child
PushIntoLast(stack, field, child) ==
    [stack EXCEPT ![Len(stack)] = [@ EXCEPT ![field] = Append(@, child)]]

IntoDfxml(a, field, child) ==
    IF IsSome(a.dfxml)
    THEN [a EXCEPT !.dfxml = Some([Unwrap(@) EXCEPT ![field] = Append(@, child)])]
    ELSE a

RECURSIVE AddLibraries(_, _, _)
AddLibraries(d, field, libs) ==
    IF libs = <<>> THEN d
    ELSE AddLibraries([d EXCEPT ![field] = Append(@, Head(libs))], field, Tail(libs))

\* The body of the loop of parse() for one event
ParseStep(a, ev) ==
    LET o == Unwrap(ev.obj)
    IN
    CASE ev.type = "DFXMLStart" -> [a EXCEPT !.dfxml = Some(o)]
      [] ev.type = "DFXMLEnd" ->
           IF IsSome(a.dfxml)
           THEN LET e1 == [Unwrap(a.dfxml) EXCEPT
                              !.program = o.program,
                              !.program_version = o.program_version,
                              !.command_line = o.command_line,
                              !.sources = o.sources]
                    e2 == AddLibraries(e1, "creator_libraries", o.creator_libraries)
                    e3 == AddLibraries(e2, "build_libraries", o.build_libraries)
                IN  [a EXCEPT !.dfxml = Some(e3)]
           ELSE a
      [] ev.type = "DiskImageStart" ->
           [a EXCEPT !.disk_image_stack = Append(@, o)]
      [] ev.type = "DiskImageEnd" ->
           IF a.disk_image_stack # <<>>
           THEN IntoDfxml([a EXCEPT !.disk_image_stack = Front(@)],
                          "disk_images", Last(a.disk_image_stack))
           ELSE a
      [] ev.type = "PartitionSystemStart" ->
           [a EXCEPT !.partition_system_stack = Append(@, o)]
      [] ev.type = "PartitionSystemEnd" ->
           IF a.partition_system_stack # <<>>
           THEN LET ps == Last(a.partition_system_stack)
                    a1 == [a EXCEPT !.partition_system_stack = Front(@)]
                IN  IF a1.disk_image_stack # <<>>
                    THEN [a1 EXCEPT !.disk_image_stack =
                             PushIntoLast(@, "partition_systems", ps)]
                    ELSE IntoDfxml(a1, "partition_systems", ps)
           ELSE a
      [] ev.type = "PartitionStart" ->
           [a EXCEPT !.partition_stack = Append(@, o)]
      [] ev.type = "PartitionEnd" ->
           IF a.partition_stack # <<>>
           THEN LET p  == Last(a.partition_stack)
                    a1 == [a EXCEPT !.partition_stack = Front(@)]
                IN  IF a1.partition_system_stack # <<>>
                    THEN [a1 EXCEPT !.partition_system_stack =
                             PushIntoLast(@, "partitions", p)]
                    ELSE IntoDfxml(a1, "partitions", p)
           ELSE a
      [] ev.type = "VolumeStart" ->
           [a EXCEPT !.volume_stack = Append(@, o)]
      [] ev.type = "VolumeEnd" ->
           IF a.volume_stack # <<>>
           THEN LET v  == Last(a.volume_stack)
                    a1 == [a EXCEPT !.volume_stack = Front(@)]
                IN  IF a1.partition_stack # <<>>
                    THEN [a1 EXCEPT !.partition_stack = PushIntoLast(@, "volumes", v)]
                    ELSE IF a1.disk_image_stack # <<>>
                    THEN [a1 EXCEPT !.disk_image_stack = PushIntoLast(@, "volumes", v)]
                    ELSE IntoDfxml(a1, "volumes", v)
           ELSE a
      [] ev.type = "FileObject" ->
           IF a.volume_stack # <<>>
           THEN [a EXCEPT !.volume_stack = PushIntoLast(@, "files", o)]
           ELSE IF a.partition_stack # <<>>
           THEN [a EXCEPT !.partition_stack = PushIntoLast(@, "files", o)]
           ELSE IF a.partition_system_stack # <<>>
           THEN [a EXCEPT !.partition_system_stack = PushIntoLast(@, "files", o)]
           ELSE IF a.disk_image_stack # <<>>
           THEN [a EXCEPT !.disk_image_stack = PushIntoLast(@, "files", o)]
           ELSE IntoDfxml(a, "files", o)
      [] OTHER -> a

\* The value parse() returns once the event stream has ended
ParseOk(d) == [tag |-> "Ok", doc |-> Some(d), err |-> ""]

ParseErr(e) == [tag |-> "Err", doc |-> None, err |-> e]

ParseFinish(a) ==
    IF IsSome(a.dfxml) THEN ParseOk(Unwrap(a.dfxml)) ELSE ParseErr("MissingField")

(***************************************************************************)
(* File iteration over the object model.                                   *)
(***************************************************************************)
RECURSIVE VolumeAllFiles(_), DiskImageAllFiles(_), PartitionAllFiles(_),
          PartitionSystemAllFiles(_), FlatVolumes(_), FlatDiskImages(_),
          FlatPartitions(_), FlatPartitionSystems(_)

FlatVolumes(vs) ==
    IF vs = <<>> THEN <<>> ELSE VolumeAllFiles(Head(vs)) \o FlatVolumes(Tail(vs))

FlatDiskImages(ds) ==
    IF ds = <<>> THEN <<>> ELSE DiskImageAllFiles(Head(ds)) \o FlatDiskImages(Tail(ds))

FlatPartitions(ps) ==
    IF ps = <<>> THEN <<>> ELSE PartitionAllFiles(Head(ps)) \o FlatPartitions(Tail(ps))

FlatPartitionSystems(ps) ==
    IF ps = <<>> THEN <<>>
    ELSE PartitionSystemAllFiles(Head(ps)) \o FlatPartitionSystems(Tail(ps))

\* VolumeObject::iter_all_files
VolumeAllFiles(v) ==
    v.files \o FlatVolumes(v.volumes) \o FlatDiskImages(v.disk_images)

\* DiskImageObject::iter_all_files
DiskImageAllFiles(di) ==
    di.files \o FlatPartitionSystems(di.partition_systems)
             \o FlatPartitions(di.partitions) \o FlatVolumes(di.volumes)

\* PartitionObject::iter_all_files
PartitionAllFiles(p) ==
    p.files \o FlatPartitionSystems(p.partition_systems)
            \o FlatPartitions(p.partitions) \o FlatVolumes(p.volumes)

\* PartitionSystemObject::iter_all_files
PartitionSystemAllFiles(ps) ==
    ps.files \o FlatPartitions(ps.partitions)

\* di.files().chain(di.volumes().flat_map(|v| v.iter_all_files())) per disk image
RECURSIVE DiskImageFilesAndVolumes(_)
DiskImageFilesAndVolumes(ds) ==
    IF ds = <<>> THEN <<>>
    ELSE Head(ds).files \o FlatVolumes(Head(ds).volumes)
         \o DiskImageFilesAndVolumes(Tail(ds))

\* DFXMLObject::iter_files
iter_files(d) ==
    d.files \o FlatVolumes(d.volumes) \o DiskImageFilesAndVolumes(d.disk_images)

(***************************************************************************)
(* The state machine: a reader driven token by token, with the two         *)
(* consumers of its events (a streaming collector and parse()) run in      *)
(* lock step on the same input.                                            *)
(***************************************************************************)
VARIABLES
    prof,          \* the family of inputs of this behaviour; for glom, the build
    rd,            \* the DFXMLReader
    open,          \* the tokenizer's stack of open elements
    tokens,        \* the tokens consumed so far
    events,        \* what next() has yielded so far, Err results included
    yield_at,      \* for each yielded item, the number of tokens consumed by then
    at_call,       \* TRUE when the next step is the entry of a call of next()
    status,        \* "running", "ended" once next() has returned None, or "panicked"
    asm,           \* the locals of parse()
    parse_result,  \* None while parse() runs, then the value it returned
    doc,           \* a Document built through the object model's API
    written,       \* None, or the result of parse(write(doc))
    brs,           \* a ByteRuns collection
    glommed,       \* the runs passed to glom so far
    fo,            \* a FileObject built through the object model's API
    answer,        \* None, or the value the last query on the objects returned
    bench,         \* the containers under construction, innermost last
    it_stack,      \* None, or the stack of a DFXMLIterator over doc
    yielded,       \* the items the DFXMLIterator has yielded so far
    calls,         \* the calls of add_namespace made on doc so far
    ext,           \* an Externals list
    pushed         \* the calls of push and try_push made on ext so far

vars ==
    <<prof, rd, open, tokens, events, yield_at, at_call, status, asm,
      parse_result, doc, written, brs, glommed, fo, answer, bench, it_stack, yielded, calls, ext, pushed>>

readerVars == <<rd, open, tokens, events, yield_at, at_call, status, asm, parse_result>>

\* Bounds of the input families
MaxElems == 4

MaxDepth == 3

MaxLeaves == 1

MaxEmpty == 1

MaxElemsLeaf == 2

MaxLeavesLeaf == 2

MaxErrors == 1

MaxElemsNest == 2

MaxDepthNest == 4

MaxBlocks == 2

ContainerNames ==
    {"diskimageobject", "partitionsystemobject", "partitionobject", "volume"}

EntityNames == ContainerNames \cup {"fileobject"}

\* The metadata blocks that save the reader's state like an entity does
BlockNames == {"creator", "build_environment"}

\* The children the object model can hold under each element
AllowedChildren(parent) ==
    CASE parent = "dfxml" -> EntityNames
      [] parent = "diskimageobject" ->
           {"partitionsystemobject", "partitionobject", "volume", "fileobject"}
      [] parent = "partitionsystemobject" -> {"partitionobject", "fileobject"}
      [] parent = "partitionobject" ->
           {"partitionsystemobject", "partitionobject", "volume", "fileobject"}
      [] parent = "volume" -> {"volume", "diskimageobject", "fileobject"}
      [] OTHER -> {}

StrA == <<"a">>

StrX == <<"x">>

Str10 == <<"1", "0">>

Str512 == <<"5", "1", "2">>

StrNtfs == <<"n", "t", "f", "s">>

StrAb == <<"A", "b">>

\* The leaf elements offered inside each entity
LeafNamesOf(parent) ==
    IF prof \in {"struct", "err", "nest"}
    THEN (IF parent = "fileobject" THEN {"filename"} ELSE {})
    ELSE IF prof = "modes"
    THEN (IF parent = "fileobject" THEN {"mode"} ELSE {})
    ELSE CASE parent = "fileobject" ->
                {"filename", "filesize", "alloc", "mtime", "hashdigest"}
           [] parent = "volume" -> {"sector_size", "ftype_str"}
           [] parent = "diskimageobject" -> {"sector_size", "imagesize"}
           [] parent = "partitionobject" -> {"block_size"}
           [] parent = "partitionsystemobject" -> {"pstype_str"}
           [] OTHER -> {}

AllLeafNames ==
    {"filename", "filesize", "alloc", "mtime", "hashdigest", "sector_size",
     "ftype_str", "imagesize", "block_size", "pstype_str", "mode"}

\* The attribute lists offered on a leaf's start tag
LeafAttrs(name) ==
    CASE name = "mtime" -> {<<>>, << <<"prec", StrX>> >>}
      [] name = "hashdigest" -> {<< <<"type", StrMd5>> >>, << <<"type", StrX>> >>}
      [] OTHER -> {<<>>}

\* The texts offered inside a mode leaf: digits only, with and without
\* leading zeros
ModeTexts ==
    {<<"0">>, <<"0", "0">>, <<"7">>, <<"0", "7">>, <<"0", "0", "7">>, <<"8">>,
     <<"0", "8">>, <<"1", "0">>, <<"0", "1", "0">>, <<"6", "4", "4">>,
     <<"0", "6", "4", "4">>, <<"0", "7", "5", "5">>, <<"4", "9", "3">>}

\* The texts offered inside a leaf: well-formed values and unparseable ones
LeafTexts(name) ==
    CASE name \in {"filename", "pstype_str"} -> {StrA}
      [] name = "ftype_str" -> {StrNtfs}
      [] name \in {"filesize", "imagesize"} -> {Str10, StrX}
      [] name \in {"sector_size", "block_size"} -> {Str512, StrX}
      [] name = "alloc" -> {Str1, StrX}
      [] name = "mtime" -> {TsZulu, StrX}
      [] name = "hashdigest" -> {StrAb}
      [] name = "mode" -> ModeTexts
      [] OTHER -> {}

Count(ts, kinds, names) ==
    Cardinality({i \in 1..Len(ts) : ts[i].kind \in kinds /\ ts[i].name \in names})

ElemBudget ==
    CASE prof = "struct" -> MaxElems
      [] prof = "nest" -> MaxElemsNest
      [] OTHER -> MaxElemsLeaf

LeafBudget == IF prof \in {"struct", "nest"} THEN MaxLeaves ELSE MaxLeavesLeaf

DepthBudget == IF prof = "nest" THEN MaxDepthNest ELSE MaxDepth

RootSeen == Count(tokens, {"Start", "Empty", "Error"}, EntityNames \cup {"dfxml"}) > 0

Parent == IF open = <<>> THEN "" ELSE Last(open).name

\* The metadata blocks the input may open next: a creator block anywhere
\* below the root, a build environment inside a creator block
BlockChoices ==
    IF prof # "nest" \/ open = <<>> THEN {}
    ELSE {n \in (IF Parent = "creator" THEN {"build_environment"}
                 ELSE IF Parent \in EntityNames \cup {"dfxml"} THEN {"creator"}
                 ELSE {}) :
             /\ Count(tokens, {"Start", "Empty"}, BlockNames) < MaxBlocks
             /\ Len(open) < DepthBudget}

\* The element names the input may open next
OpenChoices ==
    IF open = <<>>
    THEN (IF RootSeen THEN {} ELSE {"dfxml", "fileobject"})
    ELSE
      {n \in AllowedChildren(Parent) :
          /\ Count(tokens, {"Start", "Empty", "Error"}, EntityNames) < ElemBudget
          /\ Len(open) < DepthBudget}
      \cup
      {n \in LeafNamesOf(Parent) :
          /\ Count(tokens, {"Start", "Empty", "Error"}, AllLeafNames) < LeafBudget
          /\ n \notin Last(open).leaves}
      \cup BlockChoices

\* The tokenizer's stack after it has read a tag of element n
Opened(n) ==
    LET marked == IF open # <<>> /\ n \in AllLeafNames
                  THEN [open EXCEPT ![Len(open)].leaves = @ \cup {n}]
                  ELSE open
    IN  Append(marked, [name |-> n, leaves |-> {}])

Marked(n) == Front(Opened(n))

\* Entry of next(): no token is read when the reader is Done or an event waits
CanRead ==
    /\ prof \in {"struct", "leaf", "err", "nest", "modes"}
    /\ status = "running"
    /\ ~(at_call /\ (rd.state = "Done" \/ rd.pending_events # <<>>))

\* What the two consumers do with a yielded event
Yield(ev) ==
    /\ events' = Append(events, ev)
    /\ yield_at' = Append(yield_at, Len(tokens'))
    /\ asm' = IF IsNone(parse_result) THEN ParseStep(asm, ev) ELSE asm

\* The reader handles one token; the call of next() returns when ret is set
Deliver(tok, res) ==
    /\ rd' = res.r
    /\ tokens' = Append(tokens, tok)
    /\ at_call' = res.ret
    /\ IF IsSome(res.ev)
       THEN Yield(Unwrap(res.ev))
       ELSE UNCHANGED <<events, yield_at, asm>>
    /\ status' = IF res.ret /\ IsNone(res.ev) THEN "ended" ELSE status
    /\ parse_result' =
         IF res.ret /\ IsNone(res.ev) /\ IsNone(parse_result)
         THEN Some(ParseFinish(asm)) ELSE parse_result
    /\ UNCHANGED <<prof, doc, written, brs, glommed, fo, answer, bench, it_stack, yielded, calls, ext, pushed>>

Step(tok) == Deliver(tok, ProcessToken(rd, tok))

ReadStart ==
    /\ CanRead
    /\ \E n \in OpenChoices :
         \E attrs \in (IF n \in AllLeafNames THEN LeafAttrs(n) ELSE {<<>>}) :
           /\ open' = Opened(n)
           /\ Step(TStart(n, attrs))

ReadEmpty ==
    /\ CanRead
    /\ Count(tokens, {"Empty"},
             AllLeafNames \cup EntityNames \cup BlockNames \cup {"dfxml"}) < MaxEmpty
    /\ \E n \in OpenChoices :
         \E attrs \in (IF n \in AllLeafNames THEN LeafAttrs(n) ELSE {<<>>}) :
           /\ open' = Marked(n)
           /\ Step(TEmpty(n, attrs))

ReadText ==
    /\ CanRead
    /\ open # <<>>
    /\ Parent \in AllLeafNames
    /\ Last(tokens).kind = "Start"
    /\ \E t \in LeafTexts(Parent) :
         /\ open' = open
         /\ Step(TText(t))

ReadEnd ==
    /\ CanRead
    /\ open # <<>>
    /\ Parent \in AllLeafNames => Last(tokens).kind # "Start"
    /\ open' = Front(open)
    /\ Step(TEnd(Parent))

ReadEof ==
    /\ CanRead
    /\ open = <<>>
    /\ open' = open
    /\ Step(TEof)

\* Entry of next() and of parse_next(): Done ends the stream, and an event
\* left in pending_events is handed out before any token is read
NextEntry ==
    /\ prof \in {"struct", "leaf", "err", "nest", "modes"}
    /\ status = "running"
    /\ at_call
    /\ rd.state = "Done" \/ rd.pending_events # <<>>
    /\ IF rd.state = "Done"
       THEN /\ status' = "ended"
            /\ parse_result' =
                 IF IsNone(parse_result) THEN Some(ParseFinish(asm)) ELSE parse_result
            /\ UNCHANGED <<rd, events, yield_at, asm>>
       ELSE /\ rd' = [rd EXCEPT !.pending_events = Front(@)]
            /\ Yield(Last(rd.pending_events))
            /\ UNCHANGED <<status, parse_result>>
    /\ UNCHANGED <<prof, open, tokens, at_call, doc, written, brs, glommed, fo, answer, bench, it_stack, yielded, calls, ext, pushed>>

InitReader ==
    /\ rd = ReaderNew
    /\ open = <<>>
    /\ tokens = <<>>
    /\ events = <<>>
    /\ yield_at = <<>>
    /\ at_call = TRUE
    /\ status = "running"
    /\ asm = ParseNew
    /\ parse_result = None

InitOther ==
    /\ doc = DFXMLObjectNew
    /\ written = None
    /\ brs = ByteRunsNew
    /\ glommed = <<>>
    /\ fo = FileObjectNew
    /\ answer = None
    /\ bench = <<>>
    /\ it_stack = None
    /\ yielded = <<>>
    /\ calls = DefaultNamespaces
    /\ ext = ExternalsNew
    /\ pushed = <<>>

Init == prof = "struct" /\ InitReader /\ InitOther

Next == ReadStart \/ ReadEmpty \/ ReadText \/ ReadEnd \/ ReadEof \/ NextEntry

Spec == Init /\ [][Next]_vars

InitLeaf == prof = "leaf" /\ InitReader /\ InitOther

SpecLeaf == InitLeaf /\ [][Next]_vars

InitModes == prof = "modes" /\ InitReader /\ InitOther

SpecModes == InitModes /\ [][Next]_vars

InitNest == prof = "nest" /\ InitReader /\ InitOther

SpecNest == InitNest /\ [][Next]_vars

\* The ways a read can fail before any handler runs: the text of a Text
\* token does not unescape, an attribute value of a start tag does not
\* decode, or the tokenizer itself rejects the input
ErrorKinds == {"text", "attr", "syntax"}

TError(kind, name) == Tok("Error", name, <<>>, <<kind>>)

\* parse_next leaves through a `?`: next() yields Some(Err(e)); the reader's
\* fields are as they were and the tokenizer has moved past the bad token
Fail(tok) ==
    /\ tokens' = Append(tokens, tok)
    /\ events' = Append(events, Ev("Error", None))
    /\ yield_at' = Append(yield_at, Len(tokens'))
    /\ at_call' = TRUE
    /\ parse_result' =
         IF IsNone(parse_result) THEN Some(ParseErr("XmlParse")) ELSE parse_result
    /\ UNCHANGED <<prof, rd, status, asm, doc, written, brs, glommed, fo, answer, bench, it_stack, yielded, calls, ext, pushed>>

ReadError ==
    /\ CanRead
    /\ Count(tokens, {"Error"}, AllLeafNames \cup EntityNames \cup {"dfxml", ""}) < MaxErrors
    /\ \E kind \in ErrorKinds :
         CASE kind = "text" ->
                /\ open # <<>>
                /\ Parent \in AllLeafNames
                /\ Last(tokens).kind = "Start"
                /\ open' = open
                /\ Fail(TError(kind, ""))
           [] kind = "attr" ->
                \E n \in OpenChoices :
                    /\ open' = Opened(n)
                    /\ Fail(TError(kind, n))
           [] OTHER ->
                /\ open' = open
                /\ Fail(TError(kind, ""))

InitErr == prof = "err" /\ InitReader /\ InitOther

NextErr == Next \/ ReadError

SpecErr == InitErr /\ [][NextErr]_vars

(***************************************************************************)
(* What the input says, read off the consumed tokens alone.                *)
(***************************************************************************)
\* The indices of the tokens that close an element named in names
CloseIdx(names) ==
    {i \in 1..Len(tokens) : tokens[i].kind \in {"End", "Empty"} /\ tokens[i].name \in names}

EventIdx(types) == {j \in 1..Len(events) : events[j].type \in types}

\* The input was a complete document with a dfxml root and next() has returned None
WellFormedDone ==
    /\ status = "ended"
    /\ open = <<>>
    /\ tokens # <<>>
    /\ tokens[1].name = "dfxml"
    /\ \A i \in 1..Len(tokens) : tokens[i].kind # "Error"

RootPresent ==
    \E i \in 1..Len(tokens) : tokens[i].kind \in {"Start", "Empty"} /\ tokens[i].name = "dfxml"

\* The event that carries a container of the element name, and its close marker
CarrierOf(name) ==
    CASE name = "diskimageobject" -> "DiskImageStart"
      [] name = "partitionsystemobject" -> "PartitionSystemStart"
      [] name = "partitionobject" -> "PartitionStart"
      [] name = "volume" -> "VolumeStart"
      [] name = "fileobject" -> "FileObject"
      [] OTHER -> "none"

MarkerOf(name) ==
    CASE name = "diskimageobject" -> "DiskImageEnd"
      [] name = "partitionsystemobject" -> "PartitionSystemEnd"
      [] name = "partitionobject" -> "PartitionEnd"
      [] name = "volume" -> "VolumeEnd"
      [] OTHER -> "none"

\* The child list of its parent that an element of the given name belongs to
ListOf(name) ==
    CASE name = "diskimageobject" -> "disk_images"
      [] name = "partitionsystemobject" -> "partition_systems"
      [] name = "partitionobject" -> "partitions"
      [] name = "volume" -> "volumes"
      [] OTHER -> "files"

\* The nesting of an entity: its number of files and, kind by kind, the
\* nestings of its child containers
ShapeNew ==
    [files |-> <<>>, disk_images |-> <<>>, partition_systems |-> <<>>,
     partitions |-> <<>>, volumes |-> <<>>]

AddChild(stack, name, child) ==
    [stack EXCEPT ![Len(stack)] = [@ EXCEPT ![ListOf(name)] = Append(@, child)]]

\* The nesting the tokens describe: every element under its nearest
\* enclosing entity element, the document at the bottom of the stack
RECURSIVE ExpectedShape(_, _)
ExpectedShape(ts, stack) ==
    IF ts = <<>> THEN stack[1]
    ELSE
      LET t == Head(ts)
      IN  IF t.name \notin EntityNames THEN ExpectedShape(Tail(ts), stack)
          ELSE IF t.kind = "Start" THEN ExpectedShape(Tail(ts), Append(stack, ShapeNew))
          ELSE IF t.kind = "Empty"
          THEN ExpectedShape(Tail(ts), AddChild(stack, t.name, ShapeNew))
          ELSE ExpectedShape(Tail(ts), AddChild(Front(stack), t.name, Last(stack)))

FieldsOf(kind) ==
    CASE kind = "dfxml" ->
           {"files", "disk_images", "partition_systems", "partitions", "volumes"}
      [] kind = "disk_images" -> {"files", "partition_systems", "partitions", "volumes"}
      [] kind = "partition_systems" -> {"files", "partitions"}
      [] kind = "partitions" -> {"files", "partition_systems", "partitions", "volumes"}
      [] kind = "volumes" -> {"files", "volumes", "disk_images"}
      [] OTHER -> {}

\* The nesting of an object of the object model
RECURSIVE ShapeOf(_, _)
ShapeOf(o, kind) ==
    [f \in DOMAIN ShapeNew |->
        IF f \notin FieldsOf(kind) THEN <<>>
        ELSE [i \in 1..Len(o[f]) |-> ShapeOf(o[f][i], f)]]

\* The files the streaming consumer collects (parse_file_objects)
RECURSIVE FileObjectsOf(_)
FileObjectsOf(evs) ==
    IF evs = <<>> THEN <<>>
    ELSE IF Head(evs).type = "FileObject"
    THEN <<Unwrap(Head(evs).obj)>> \o FileObjectsOf(Tail(evs))
    ELSE FileObjectsOf(Tail(evs))

ParsedOk == IsSome(parse_result) /\ Unwrap(parse_result).tag = "Ok"

ParsedDoc == Unwrap(Unwrap(parse_result).doc)

(***************************************************************************)
(* The claims.                                                             *)
(***************************************************************************)
\* C2: parse() of a well-formed document returns a Document in which every
\* container and every file is a child of the entity of its nearest
\* enclosing container element, or of the Document when none encloses it.
C2_ParseNesting ==
    (WellFormedDone /\ ParsedOk) =>
        ShapeOf(ParsedDoc, "dfxml") = ExpectedShape(tokens, <<ShapeNew>>)

\* A well-formed document with a volume element has been parsed
C2_Case ==
    WellFormedDone /\ ParsedOk /\ CloseIdx({"volume"}) # {}

\* C3: the files collected from the event stream are, in order, the files
\* iter_files yields on the Document parse() returns.
C3_StreamingEqualsParse ==
    (WellFormedDone /\ ParsedOk) => FileObjectsOf(events) = iter_files(ParsedDoc)

\* A well-formed document with a file after a container has been parsed
C3_Case ==
    /\ WellFormedDone /\ ParsedOk
    /\ \E i \in CloseIdx(ContainerNames) : \E k \in CloseIdx({"fileobject"}) : i < k

\* C5: once the stream has ended, every closed container element has had
\* its close marker yielded right after the event that carries it.
C5_CloseMarkers ==
    status = "ended" =>
        \A i \in CloseIdx(ContainerNames) :
            \E j \in EventIdx({MarkerOf(tokens[i].name)}) :
                /\ yield_at[j] = i
                /\ j > 1
                /\ events[j - 1].type = CarrierOf(tokens[i].name)
                /\ yield_at[j - 1] = i

\* The stream has ended on an input with a closed container
C5_Case == status = "ended" /\ CloseIdx(ContainerNames) # {}

\* C6: the FileObject events are, one for one and in order, the close
\* tags of the fileobject elements consumed so far.
C6_OneEventPerFile ==
    /\ Cardinality(EventIdx({"FileObject"})) = Cardinality(CloseIdx({"fileobject"}))
    /\ \A j \in EventIdx({"FileObject"}) : yield_at[j] \in CloseIdx({"fileobject"})
    /\ \A j, k \in EventIdx({"FileObject"}) : j < k => yield_at[j] < yield_at[k]

\* Files before, inside and after a container have all been yielded
C6_Case ==
    /\ WellFormedDone
    /\ Cardinality(EventIdx({"FileObject"})) = 3
    /\ \E i \in CloseIdx(ContainerNames) :
         \E a, b \in CloseIdx({"fileobject"}) : a < i /\ i < b

\* C9: when the stream ends without a tokenizer error, parse() returns the
\* missing-root error exactly when the input opened no dfxml root.
C9_RootDecidesResult ==
    (status = "ended" /\ IsSome(parse_result)) =>
        (Unwrap(parse_result).tag = "Err" <=> ~RootPresent)

\* parse() has returned on an input whose root is a self-closing dfxml tag
C9_Case ==
    /\ status = "ended"
    /\ RootPresent
    /\ tokens[1].kind = "Empty"

\* The events next() yields on a token sequence, from a given reader on
RECURSIVE RunEvents(_, _, _, _), RunFrom(_, _, _)
RunEvents(ts, r, entry, evs) ==
    IF entry /\ r.state = "Done" THEN evs
    ELSE IF entry /\ r.pending_events # <<>>
    THEN RunEvents(ts, [r EXCEPT !.pending_events = Front(@)], TRUE,
                   Append(evs, Last(r.pending_events)))
    ELSE IF ts = <<>> THEN evs
    ELSE RunFrom(Tail(ts), ProcessToken(r, Head(ts)), evs)

RunFrom(ts, res, evs) ==
    IF res.ret /\ IsNone(res.ev) THEN evs
    ELSE RunEvents(ts, res.r, res.ret,
                   IF IsSome(res.ev) THEN Append(evs, Unwrap(res.ev)) ELSE evs)

\* Nesting depth of the input before token i
DepthBefore(i) ==
    Cardinality({k \in 1..(i - 1) : tokens[k].kind = "Start"})
    - Cardinality({k \in 1..(i - 1) : tokens[k].kind = "End"})

Max(S) == CHOOSE x \in S : \A y \in S : y <= x

Min(S) == CHOOSE x \in S : \A y \in S : x <= y

\* The start tag of the element that directly encloses token i (0: none)
ParentIdx(i) ==
    Max({0} \cup {p \in 1..(i - 1) :
                    tokens[p].kind = "Start" /\ DepthBefore(p) = DepthBefore(i) - 1})

\* The End tokens after p at the depth of the element opened at p
ClosersOf(p) ==
    {c \in (p + 1)..Len(tokens) :
        tokens[c].kind = "End" /\ DepthBefore(c) = DepthBefore(p) + 1}

\* The close tag of the element opened at p (0: not closed yet)
CloseOf(p) ==
    IF tokens[p].kind = "Empty" THEN p
    ELSE IF ClosersOf(p) = {} THEN 0
    ELSE Min(ClosersOf(p))

\* The field of the object model a leaf element stands for
FieldOf(name) ==
    CASE name = "imagesize" -> "image_size"
      [] name = "hashdigest" -> "hashes"
      [] OTHER -> name

\* The leaves <name>text</name> in the consumed input, by their start tag
TextLeaves ==
    {i \in 1..(Len(tokens) - 2) :
        /\ tokens[i].kind = "Start" /\ tokens[i].name \in AllLeafNames
        /\ tokens[i + 1].kind = "Text"
        /\ tokens[i + 2].kind = "End"}

IsBadLeaf(i) ==
    \/ tokens[i + 1].text = StrX
    \/ \E a \in 1..Len(tokens[i].attrs) : tokens[i].attrs[a][2] = StrX

\* The input with the leaf at i left out
WithoutLeaf(i) == SubSeq(tokens, 1, i - 1) \o SubSeq(tokens, i + 3, Len(tokens))

\* The event with one field of the carried object blanked
Blank(ev, field) ==
    IF IsSome(ev.obj) /\ field \in DOMAIN Unwrap(ev.obj)
    THEN [ev EXCEPT !.obj = Some([Unwrap(@) EXCEPT ![field] = None])]
    ELSE ev

\* Two event lists agree except for one field of the event yielded at token c
SameExceptField(evs, alt, c, field) ==
    /\ Len(evs) = Len(alt)
    /\ \A j \in 1..Len(evs) :
         IF yield_at[j] = c
         THEN Blank(evs[j], field) = Blank(alt[j], field)
         ELSE evs[j] = alt[j]

\* C4: a container's event is yielded only at that element's close tag,
\* after the FileObject events of the files inside it, and the object it
\* carries holds every value leaf written directly in the element.
C4_ContainerAtClose ==
    /\ \A j \in EventIdx({CarrierOf(n) : n \in ContainerNames}) :
         /\ yield_at[j] \in CloseIdx(ContainerNames)
         /\ events[j].type = CarrierOf(tokens[yield_at[j]].name)
         /\ \A k \in EventIdx({"FileObject"}) : yield_at[k] < yield_at[j] => k < j
    /\ \A i \in TextLeaves :
         (~IsBadLeaf(i) /\ ParentIdx(i) > 0 /\ tokens[ParentIdx(i)].name \in ContainerNames) =>
             \A j \in 1..Len(events) :
                 (yield_at[j] = CloseOf(ParentIdx(i))
                  /\ events[j].type = CarrierOf(tokens[ParentIdx(i)].name)) =>
                     IsSome(Unwrap(events[j].obj)[FieldOf(tokens[i].name)])

\* A container holding a file and a value leaf has been closed and yielded
C4_Case ==
    \E i \in TextLeaves :
        /\ ~IsBadLeaf(i) /\ ParentIdx(i) > 0
        /\ tokens[ParentIdx(i)].name \in ContainerNames
        /\ \E j \in 1..Len(events) : yield_at[j] = CloseOf(ParentIdx(i))

\* C7: with an unparseable leaf in a well-formed input the reader yields
\* no error and, but for the leaf's own field of the enclosing entity, the
\* very events it yields on the input without that leaf.
C7_BadLeafOnlyItsField ==
    WellFormedDone =>
        \A i \in TextLeaves :
            IsBadLeaf(i) =>
                /\ EventIdx({"Error"}) = {}
                /\ SameExceptField(events,
                                   RunEvents(WithoutLeaf(i), ReaderNew, TRUE, <<>>),
                                   CloseOf(ParentIdx(i)), FieldOf(tokens[i].name))

\* A well-formed input with an unparseable leaf has been read to its end
C7_Case == WellFormedDone /\ \E i \in TextLeaves : IsBadLeaf(i)

\* C8: once next() has yielded an error it yields nothing more.
C8_ErrorEndsStream ==
    \A j \in EventIdx({"Error"}) : j = Len(events)

\* An error has been yielded and next() has been called again
C8_Case ==
    /\ EventIdx({"Error"}) # {}
    /\ Last(tokens).kind # "Error"

(***************************************************************************)
(* The writer (src/src/writer.rs), as the token sequence the reader's      *)
(* tokenizer reads back from the written text: the declaration and the     *)
(* indentation give no token, an element's text comes back trimmed and an  *)
(* empty text gives no token at all (trim_text(true)).                     *)
(***************************************************************************)
\* Event::Text(value) as it is read back
TextTokens(value) == IF Trim(value) = <<>> THEN <<>> ELSE <<TText(Trim(value))>>

\* DFXMLWriter::write_simple_element
write_simple_element(name, value) ==
    <<TStart(name, <<>>)>> \o TextTokens(value) \o <<TEnd(name)>>

\* if let Some(v) = field { write_simple_element(name, v) }
WriteStr(name, field) ==
    IF IsSome(field) THEN write_simple_element(name, Unwrap(field)) ELSE <<>>

\* the same with v.to_string() of an unsigned number
WriteNum(name, field) ==
    IF IsSome(field) THEN write_simple_element(name, ToDecString(Unwrap(field))) ELSE <<>>

\* the same with if v { "1" } else { "0" }
WriteBool(name, field) ==
    IF IsSome(field)
    THEN write_simple_element(name, IF Unwrap(field) THEN Str1 ELSE Str0)
    ELSE <<>>

\* push_attribute when the value is present
AttrIf(key, value) == IF IsSome(value) THEN << <<key, Unwrap(value)>> >> ELSE <<>>

NumAttrIf(key, value) ==
    IF IsSome(value) THEN << <<key, ToDecString(Unwrap(value))>> >> ELSE <<>>

\* DFXMLWriter::write_library
write_library(lib) ==
    <<TEmpty("library", AttrIf("name", lib.name) \o AttrIf("version", lib.version))>>

RECURSIVE WriteLibraries(_)
WriteLibraries(libs) ==
    IF libs = <<>> THEN <<>> ELSE write_library(Head(libs)) \o WriteLibraries(Tail(libs))

\* DFXMLWriter::write_creator
write_creator(d) ==
    IF IsNone(d.program) /\ IsNone(d.program_version) /\ IsNone(d.command_line)
       /\ Len(d.creator_libraries) = 0
    THEN <<>>
    ELSE <<TStart("creator", <<>>)>>
         \o WriteStr("program", d.program)
         \o WriteStr("version", d.program_version)
         \o WriteStr("command_line", d.command_line)
         \o WriteLibraries(d.creator_libraries)
         \o <<TEnd("creator")>>
         \o (IF Len(d.build_libraries) > 0
             THEN <<TStart("build_environment", <<>>)>>
                  \o WriteLibraries(d.build_libraries)
                  \o <<TEnd("build_environment")>>
             ELSE <<>>)

\* The order in which write_hashes visits the algorithms
HashOrder == <<"md5", "md6", "sha1", "sha224", "sha256", "sha384", "sha512">>

RECURSIVE WriteHashesFrom(_, _)
WriteHashesFrom(hashes, i) ==
    IF i > Len(HashOrder) THEN <<>>
    ELSE (IF IsSome(hashes[HashOrder[i]])
          THEN <<TStart("hashdigest", << <<"type", HashTypeAsStr(HashOrder[i])>> >>)>>
               \o TextTokens(Unwrap(hashes[HashOrder[i]]))
               \o <<TEnd("hashdigest")>>
          ELSE <<>>)
         \o WriteHashesFrom(hashes, i + 1)

\* DFXMLWriter::write_hashes
write_hashes(hashes) == WriteHashesFrom(hashes, 1)

\* ByteRunType's Display
RunTypeToString(t) ==
    IF t.tag = "Resident" THEN <<"r", "e", "s", "i", "d", "e", "n", "t">> ELSE t.text

\* DFXMLWriter::write_byte_run
write_byte_run(br) ==
    LET elem == NumAttrIf("img_offset", br.img_offset)
                \o NumAttrIf("fs_offset", br.fs_offset)
                \o NumAttrIf("file_offset", br.file_offset)
                \o NumAttrIf("len", br.len)
                \o NumAttrIf("fill", br.fill)
                \o (IF IsSome(br.run_type)
                    THEN << <<"type", RunTypeToString(Unwrap(br.run_type))>> >>
                    ELSE <<>>)
                \o NumAttrIf("uncompressed_len", br.uncompressed_len)
    IN  IF HashesHasAny(br.hashes)
        THEN <<TStart("byte_run", elem)>> \o write_hashes(br.hashes) \o <<TEnd("byte_run")>>
        ELSE <<TEmpty("byte_run", elem)>>

RECURSIVE WriteRuns(_)
WriteRuns(runs) ==
    IF runs = <<>> THEN <<>> ELSE write_byte_run(Head(runs)) \o WriteRuns(Tail(runs))

\* DFXMLWriter::write_byte_runs_with_facet
write_byte_runs_with_facet(brs0, facet) ==
    IF brs0.runs = <<>> THEN <<>>
    ELSE <<TStart("byte_runs",
                  IF IsSome(facet) THEN << <<"facet", FacetAsStr(Unwrap(facet))>> >> ELSE <<>>)>>
         \o WriteRuns(brs0.runs)
         \o <<TEnd("byte_runs")>>

\* DFXMLWriter::write_byte_runs on an optional collection
write_byte_runs(field) ==
    IF IsSome(field) THEN write_byte_runs_with_facet(Unwrap(field), Unwrap(field).facet)
    ELSE <<>>

\* TimeUnit::as_str
TimeUnitAsStr(u) ==
    CASE u = "Day" -> StrD [] u = "Second" -> StrS
      [] u = "Millisecond" -> StrMs [] OTHER -> StrNs

\* i64's Display
SignedToString(n) == IF n < 0 THEN <<"-">> \o ToDecString(0 - n) ELSE ToDecString(n)

\* Precision's Display
PrecisionToString(p) == SignedToString(p.resolution) \o TimeUnitAsStr(p.unit)

\* DFXMLWriter::write_timestamp on an optional timestamp
write_timestamp(name, field) ==
    IF IsSome(field) /\ IsSome(Unwrap(field).time)
    THEN <<TStart(name, IF IsSome(Unwrap(field).prec)
                        THEN << <<"prec", PrecisionToString(Unwrap(Unwrap(field).prec))>> >>
                        ELSE <<>>)>>
         \o TextTokens(to_rfc3339(Unwrap(Unwrap(field).time)))
         \o <<TEnd(name)>>
    ELSE <<>>

\* `MetaType as u8`: the position of the variant in the enum
MetaTypeDiscriminant(m) ==
    CASE m = "Regular" -> 0 [] m = "Directory" -> 1 [] m = "SymbolicLink" -> 2
      [] m = "BlockDevice" -> 3 [] m = "CharacterDevice" -> 4 [] m = "Fifo" -> 5
      [] m = "Socket" -> 6 [] m = "Shadow" -> 7 [] m = "Virtual" -> 8
      [] OTHER -> 9

\* format!("{:o}", mode)
RECURSIVE ToOctString(_)
ToOctString(n) ==
    IF n < 8 THEN <<DigitChar(n)>>
    ELSE Append(ToOctString(n \div 8), DigitChar(n % 8))

\* The allocation elements of write_file
WriteAlloc(file) ==
    IF IsNone(file.alloc_inode) /\ IsNone(file.alloc_name)
    THEN WriteBool("alloc", file.alloc)
    ELSE WriteBool("alloc_inode", file.alloc_inode)
         \o WriteBool("alloc_name", file.alloc_name)

\* The byte-run elements of write_file
WriteFileRuns(file) ==
    LET has_multiple_facets ==
            Cardinality({f \in {"inode_brs", "name_brs", "data_brs"} : IsSome(file[f])}) > 1
    IN  (IF IsSome(file.inode_brs)
         THEN write_byte_runs_with_facet(Unwrap(file.inode_brs), Some("Inode")) ELSE <<>>)
        \o (IF IsSome(file.name_brs)
            THEN write_byte_runs_with_facet(Unwrap(file.name_brs), Some("Name")) ELSE <<>>)
        \o (IF IsSome(file.data_brs)
            THEN write_byte_runs_with_facet(
                     Unwrap(file.data_brs),
                     IF has_multiple_facets THEN Some("Data")
                     ELSE Unwrap(file.data_brs).facet)
            ELSE <<>>)

\* DFXMLWriter::write_file, over the fields the model's FileObject carries
write_file(file) ==
    <<TStart("fileobject", <<>>)>>
    \o WriteStr("filename", file.filename)
    \o WriteStr("error", file.error)
    \o WriteNum("partition", file.partition)
    \o WriteNum("id", file.id)
    \o WriteNum("filesize", file.filesize)
    \o WriteAlloc(file)
    \o WriteNum("inode", file.inode)
    \o (IF IsSome(file.meta_type)
        THEN write_simple_element("meta_type",
                 ToDecString(MetaTypeDiscriminant(Unwrap(file.meta_type))))
        ELSE <<>>)
    \o (IF IsSome(file.mode)
        THEN write_simple_element("mode", ToOctString(Unwrap(file.mode))) ELSE <<>>)
    \o write_timestamp("mtime", file.mtime)
    \o write_timestamp("ctime", file.ctime)
    \o write_timestamp("atime", file.atime)
    \o write_timestamp("crtime", file.crtime)
    \o write_timestamp("dtime", file.dtime)
    \o write_timestamp("bkup_time", file.bkup_time)
    \o WriteFileRuns(file)
    \o write_hashes(file.hashes)
    \o <<TEnd("fileobject")>>

RECURSIVE WriteFiles(_)
WriteFiles(files) ==
    IF files = <<>> THEN <<>> ELSE write_file(Head(files)) \o WriteFiles(Tail(files))

RECURSIVE write_volume(_), WriteVolumes(_)
\* DFXMLWriter::write_volume, over the fields the model's VolumeObject carries
write_volume(vol) ==
    <<TStart("volume", <<>>)>>
    \o WriteNum("sector_size", vol.sector_size)
    \o WriteNum("block_size", vol.block_size)
    \o WriteStr("ftype_str", vol.ftype_str)
    \o write_byte_runs(vol.byte_runs)
    \o WriteVolumes(vol.volumes)
    \o WriteFiles(vol.files)
    \o WriteStr("error", vol.error)
    \o <<TEnd("volume")>>

WriteVolumes(vols) ==
    IF vols = <<>> THEN <<>> ELSE write_volume(Head(vols)) \o WriteVolumes(Tail(vols))

RECURSIVE write_partition(_), WritePartitions(_)
\* DFXMLWriter::write_partition
write_partition(p) ==
    <<TStart("partitionobject", <<>>)>>
    \o WriteNum("partition_index", p.partition_index)
    \o WriteStr("ptype_str", p.ptype_str)
    \o WriteNum("block_size", p.block_size)
    \o write_byte_runs(p.byte_runs)
    \o WriteVolumes(p.volumes)
    \o WritePartitions(p.partitions)
    \o WriteFiles(p.files)
    \o <<TEnd("partitionobject")>>

WritePartitions(ps) ==
    IF ps = <<>> THEN <<>> ELSE write_partition(Head(ps)) \o WritePartitions(Tail(ps))

\* DFXMLWriter::write_partition_system
write_partition_system(ps) ==
    <<TStart("partitionsystemobject", <<>>)>>
    \o WriteStr("pstype_str", ps.pstype_str)
    \o write_byte_runs(ps.byte_runs)
    \o WritePartitions(ps.partitions)
    \o WriteFiles(ps.files)
    \o WriteStr("error", ps.error)
    \o <<TEnd("partitionsystemobject")>>

RECURSIVE WritePartitionSystems(_)
WritePartitionSystems(pss) ==
    IF pss = <<>> THEN <<>>
    ELSE write_partition_system(Head(pss)) \o WritePartitionSystems(Tail(pss))

\* DFXMLWriter::write_disk_image
write_disk_image(di) ==
    <<TStart("diskimageobject", <<>>)>>
    \o WriteStr("image_filename", di.image_filename)
    \o WriteNum("imagesize", di.image_size)
    \o WriteNum("sector_size", di.sector_size)
    \o write_byte_runs(di.byte_runs)
    \o WritePartitionSystems(di.partition_systems)
    \o WritePartitions(di.partitions)
    \o WriteVolumes(di.volumes)
    \o WriteFiles(di.files)
    \o WriteStr("error", di.error)
    \o <<TEnd("diskimageobject")>>

RECURSIVE WriteDiskImages(_)
WriteDiskImages(dis) ==
    IF dis = <<>> THEN <<>> ELSE write_disk_image(Head(dis)) \o WriteDiskImages(Tail(dis))

RECURSIVE WriteSources(_)
WriteSources(sources) ==
    IF sources = <<>> THEN <<>>
    ELSE write_simple_element("image_filename", Head(sources)) \o WriteSources(Tail(sources))

\* DFXMLWriter::write
write(d) ==
    <<TDecl>>
    \o <<TStart("dfxml", << <<"version", d.version>>, <<"xmlns", XMLNS_DFXML>>,
                         <<"xmlns:dc", XMLNS_DC>> >>)>>
    \o write_creator(d)
    \o WriteSources(d.sources)
    \o WriteDiskImages(d.disk_images)
    \o WritePartitionSystems(d.partition_systems)
    \o WritePartitions(d.partitions)
    \o WriteVolumes(d.volumes)
    \o WriteFiles(d.files)
    \o <<TEnd("dfxml")>>

\* The loop of parse() over the events of a whole stream
RECURSIVE ParseFold(_, _)
ParseFold(a, evs) ==
    IF evs = <<>> THEN a ELSE ParseFold(ParseStep(a, Head(evs)), Tail(evs))

\* parse() on a text the tokenizer reads without error, Eof included
parse(ts) ==
    ParseFinish(ParseFold(ParseNew, RunEvents(Append(ts, TEof), ReaderNew, TRUE, <<>>)))

(***************************************************************************)
(* Round trip: a Document is built through the object model's API, then    *)
(* written and parsed back.                                                *)
(***************************************************************************)
MaxDocVolumes == 2

MaxDocFiles == 3

\* FileObject::with_filename
with_filename(name) == [FileObjectNew EXCEPT !.filename = Some(name)]

\* VolumeObject::with_ftype
with_ftype(ftype) == [VolumeObjectNew EXCEPT !.ftype_str = Some(ftype)]

\* The files a builder attaches: a name, with or without a size
FileChoices ==
    {[with_filename(n) EXCEPT !.filesize = s] : n \in {StrA, StrX}, s \in {None, Some(10)}}

VolumeChoices == {VolumeObjectNew, with_ftype(StrNtfs)}

Building == prof = "rt" /\ IsNone(written)

\* doc.append_volume(vol)
AppendVolume ==
    /\ Building
    /\ Len(doc.volumes) < MaxDocVolumes
    /\ \E vol \in VolumeChoices : doc' = append_volume(doc, vol)
    /\ UNCHANGED <<prof, written, brs, glommed, fo, answer, bench, it_stack, yielded, calls, ext, pushed>>
    /\ UNCHANGED readerVars

\* vol.append_file(file) on the volume appended last
AppendVolumeFile ==
    /\ Building
    /\ doc.volumes # <<>>
    /\ Len(iter_files(doc)) < MaxDocFiles
    /\ \E file \in FileChoices :
         doc' = [doc EXCEPT !.volumes[Len(doc.volumes)] = append_file(@, file)]
    /\ UNCHANGED <<prof, written, brs, glommed, fo, answer, bench, it_stack, yielded, calls, ext, pushed>>
    /\ UNCHANGED readerVars

\* doc.append_file(file)
AppendFile ==
    /\ Building
    /\ Len(iter_files(doc)) < MaxDocFiles
    /\ \E file \in FileChoices : doc' = append_file(doc, file)
    /\ UNCHANGED <<prof, written, brs, glommed, fo, answer, bench, it_stack, yielded, calls, ext, pushed>>
    /\ UNCHANGED readerVars

\* parse(Cursor::new(to_string(&doc)))
RoundTrip ==
    /\ Building
    /\ written' = Some(parse(write(doc)))
    /\ UNCHANGED <<prof, doc, brs, glommed, fo, answer, bench, it_stack, yielded, calls, ext, pushed>>
    /\ UNCHANGED readerVars

InitRT == prof = "rt" /\ InitReader /\ InitOther

NextRT == AppendVolume \/ AppendVolumeFile \/ AppendFile \/ RoundTrip

SpecRT == InitRT /\ [][NextRT]_vars

FilesOfVolumes(vs) == [i \in 1..Len(vs) |-> vs[i].files]

\* C1: the document parsed back from the written text has as many volumes
\* as the document written, the same files in each volume and directly
\* under the document, in the same order.
C1_RoundTripStructure ==
    IsSome(written) =>
        /\ Unwrap(written).tag = "Ok"
        /\ Len(Unwrap(Unwrap(written).doc).volumes) = Len(doc.volumes)
        /\ FilesOfVolumes(Unwrap(Unwrap(written).doc).volumes) = FilesOfVolumes(doc.volumes)
        /\ Unwrap(Unwrap(written).doc).files = doc.files

\* A document with a volume holding a file and a file of its own was round-tripped
C1_Case ==
    /\ IsSome(written)
    /\ doc.files # <<>>
    /\ \E i \in 1..Len(doc.volumes) : doc.volumes[i].files # <<>>

(***************************************************************************)
(* Byte-run merging (src/src/objects/common.rs).  Offsets and lengths are  *)
(* u64; the model's words are scaled down to 0..MaxU64.  An addition that  *)
(* leaves the range panics in a build with overflow checks and wraps in a  *)
(* build without them.                                                     *)
(***************************************************************************)
MaxU64 == 15

MaxRuns == 3

WrapAdd(a, b) == (a + b) % (MaxU64 + 1)

Overflows(a, b) == a + b > MaxU64

\* ByteRun::with_img_offset
with_img_offset(img_offset, len) ==
    [ByteRunNew EXCEPT !.img_offset = Some(img_offset), !.len = Some(len)]

\* One `match (self.x_offset, other.x_offset)` of try_concat
MatchOffset(s, o, self_len, checks) ==
    IF IsSome(s) /\ IsSome(o)
    THEN IF checks /\ Overflows(Unwrap(s), self_len) THEN "panic"
         ELSE IF WrapAdd(Unwrap(s), self_len) = Unwrap(o) THEN "contiguous"
         ELSE "return"
    ELSE IF IsNone(s) /\ IsNone(o) THEN "absent"
    ELSE "return"

ConcatNone == [panic |-> FALSE, run |-> None]

ConcatPanic == [panic |-> TRUE, run |-> None]

\* The end of try_concat, the three matches being done
ConcatBuild(self, other, img, fs, file, checks) ==
    IF "panic" \in {img, fs, file} THEN ConcatPanic
    ELSE IF "return" \in {img, fs, file} THEN ConcatNone
    ELSE IF "contiguous" \notin {img, fs, file} THEN ConcatNone
    ELSE IF checks /\ Overflows(Unwrap(self.len), Unwrap(other.len)) THEN ConcatPanic
    ELSE [panic |-> FALSE,
          run   |-> Some([img_offset |-> IF img = "contiguous" THEN self.img_offset ELSE None,
                          fs_offset |-> IF fs = "contiguous" THEN self.fs_offset ELSE None,
                          file_offset |-> IF file = "contiguous" THEN self.file_offset ELSE None,
                          len |-> Some(WrapAdd(Unwrap(self.len), Unwrap(other.len))),
                          fill |-> self.fill,
                          run_type |-> self.run_type,
                          uncompressed_len |-> None,
                          hashes |-> HashesNew])]

\* The three matches in order: a match that panics or returns ends the call
ConcatOffsets(self, other, checks) ==
    LET img  == MatchOffset(self.img_offset, other.img_offset, Unwrap(self.len), checks)
        fs   == IF img \in {"panic", "return"} THEN "absent"
                ELSE MatchOffset(self.fs_offset, other.fs_offset, Unwrap(self.len), checks)
        file == IF {img, fs} \cap {"panic", "return"} # {} THEN "absent"
                ELSE MatchOffset(self.file_offset, other.file_offset, Unwrap(self.len), checks)
    IN  ConcatBuild(self, other, img, fs, file, checks)

\* try_concat without its test for hashes
try_concat_hashes_ignored(self, other, checks) ==
    IF self.fill # other.fill THEN ConcatNone
    ELSE IF self.run_type # other.run_type THEN ConcatNone
    ELSE IF IsSome(self.uncompressed_len) \/ IsSome(other.uncompressed_len) THEN ConcatNone
    ELSE IF IsNone(self.len) \/ IsNone(other.len) THEN ConcatNone
    ELSE ConcatOffsets(self, other, checks)

\* ByteRun::try_concat
try_concat(self, other, checks) ==
    IF self.fill # other.fill THEN ConcatNone
    ELSE IF self.run_type # other.run_type THEN ConcatNone
    ELSE IF IsSome(self.uncompressed_len) \/ IsSome(other.uncompressed_len) THEN ConcatNone
    ELSE IF HashesHasAny(self.hashes) \/ HashesHasAny(other.hashes) THEN ConcatNone
    ELSE IF IsNone(self.len) \/ IsNone(other.len) THEN ConcatNone
    ELSE ConcatOffsets(self, other, checks)

\* ByteRuns::push
push(b, run) == [b EXCEPT !.runs = Append(@, run)]

\* The body of glom once try_concat has answered
GlomWith(b, run, c) ==
    IF c.panic THEN [panic |-> TRUE, brs |-> b]
    ELSE IF IsSome(c.run)
    THEN [panic |-> FALSE, brs |-> [b EXCEPT !.runs = Append(Front(@), Unwrap(c.run))]]
    ELSE [panic |-> FALSE, brs |-> push(b, run)]

\* ByteRuns::glom
glom(b, run, checks) ==
    IF b.runs # <<>> THEN GlomWith(b, run, try_concat(Last(b.runs), run, checks))
    ELSE [panic |-> FALSE, brs |-> push(b, run)]

\* The plain runs a caller gloms: an image offset and a length, nothing else
PlainRuns == {with_img_offset(o, l) : o \in {0, 2, 4, MaxU64 - 1}, l \in {2, 4}}

\* The build: with overflow checks (dev profile) or without (release profile)
OverflowChecks == prof \in {"glom_checked", "ann_checked"}

GlomResult(res) ==
    /\ brs' = res.brs
    /\ status' = IF res.panic THEN "panicked" ELSE status

\* brs.glom(run)
Glom ==
    /\ prof \in {"glom_checked", "glom_wrapping"}
    /\ status = "running"
    /\ Len(glommed) < MaxRuns
    /\ \E run \in PlainRuns :
         /\ glommed' = Append(glommed, run)
         /\ GlomResult(glom(brs, run, OverflowChecks))
    /\ UNCHANGED <<prof, rd, open, tokens, events, yield_at, at_call, asm, parse_result,
                   doc, written, fo, answer, bench, it_stack, yielded, calls, ext, pushed>>

InitGlom == prof \in {"glom_checked", "glom_wrapping"} /\ InitReader /\ InitOther

NextGlom == Glom

SpecGlom == InitGlom /\ [][NextGlom]_vars

\* Where a run ends, as a number
EndOf(run) == Unwrap(run.img_offset) + Unwrap(run.len)

\* The positions i at which run i + 1 does not start where run i ends
Gaps == {i \in 1..(Len(glommed) - 1) : Unwrap(glommed[i + 1].img_offset) # EndOf(glommed[i])}

RECURSIVE SumLen(_)
SumLen(runs) ==
    IF runs = <<>> THEN 0 ELSE Unwrap(Head(runs).len) + SumLen(Tail(runs))

\* C10: glommed from empty, runs that each start where the previous one
\* ends give one run with the first offset and the sum of the lengths, and
\* the runs on the two sides of a gap are never merged into one.
C10_GlomContiguous ==
    /\ status # "panicked"
    /\ (glommed # <<>> /\ Gaps = {}) =>
          brs.runs = <<with_img_offset(Unwrap(glommed[1].img_offset), SumLen(glommed))>>
    /\ glommed # <<>> => Len(brs.runs) > Cardinality(Gaps)
    /\ \A i \in Gaps :
          brs.runs[1 + Cardinality({j \in Gaps : j <= i})].img_offset
              = glommed[i + 1].img_offset

\* Three runs were glommed, with a gap or without
C10_Case == Len(glommed) = MaxRuns /\ brs.runs # <<>>

(***************************************************************************)
(* glom on annotated runs: a fill byte, a run type, an uncompressed        *)
(* length or a hash on top of the image offset and the length.             *)
(***************************************************************************)
MaxAnnRuns == 3

StrResident == <<"r", "e", "s", "i", "d", "e", "n", "t">>

\* The annotations a run may carry, one at a time
Annotate(run) ==
    {run,
     [run EXCEPT !.fill = Some(0)],
     [run EXCEPT !.fill = Some(1)],
     [run EXCEPT !.run_type = RunTypeFromStr(StrResident)],
     [run EXCEPT !.uncompressed_len = Some(4)],
     [run EXCEPT !.hashes = HashesSet(@, "md5", StrAb)]}

AnnotatedRuns == UNION {Annotate(with_img_offset(o, 2)) : o \in {0, 2, 4}}

\* brs.glom(run) with an annotated run
GlomAnnotated ==
    /\ prof \in {"ann_checked", "ann_wrapping"}
    /\ status = "running"
    /\ Len(glommed) < MaxAnnRuns
    /\ \E run \in AnnotatedRuns :
         /\ glommed' = Append(glommed, run)
         /\ GlomResult(glom(brs, run, OverflowChecks))
    /\ UNCHANGED <<prof, rd, open, tokens, events, yield_at, at_call, asm, parse_result,
                   doc, written, fo, answer, bench, it_stack, yielded, calls, ext, pushed>>

InitGlomAnn == prof \in {"ann_checked", "ann_wrapping"} /\ InitReader /\ InitOther

NextGlomAnn == GlomAnnotated

SpecGlomAnn == InitGlomAnn /\ [][NextGlomAnn]_vars

\* The cases in which two runs must never be combined
MustNotMerge(l, n) ==
    \/ l.fill # n.fill
    \/ l.run_type # n.run_type
    \/ IsSome(l.uncompressed_len) \/ IsSome(n.uncompressed_len)
    \/ HashesHasAny(l.hashes) \/ HashesHasAny(n.hashes)

\* C11: a glom call whose run differs from the last run of the collection
\* in fill byte or run type, or where either of the two carries an
\* uncompressed length or a hash, appends the run and leaves every run
\* already in the collection as it was.
C11_GlomNeverMergesAnnotated ==
    [][(glommed' # glommed /\ brs.runs # <<>>
        /\ MustNotMerge(Last(brs.runs), Last(glommed')))
       => (status' = "running" /\ brs'.runs = Append(brs.runs, Last(glommed')))]_vars

\* A run with a hash was followed by the plain run that starts where it
\* ends, and the two stayed separate
C11_Case ==
    /\ Len(glommed) = 2
    /\ EndOf(glommed[1]) = Unwrap(glommed[2].img_offset)
    /\ HashesHasAny(glommed[1].hashes)
    /\ ~HashesHasAny(glommed[2].hashes)
    /\ brs.runs = glommed

(***************************************************************************)
(* FileObject::is_allocated, applied to files whose three allocation      *)
(* flags are assigned in every combination.                                *)
(***************************************************************************)
OptBool == {None, Some(TRUE), Some(FALSE)}

is_allocated_partial(self) ==
    IF self.alloc_inode = Some(TRUE) /\ self.alloc_name = Some(TRUE) THEN Some(TRUE)
    ELSE IF IsNone(self.alloc_inode) /\ IsNone(self.alloc_name) THEN self.alloc
    ELSE IF IsNone(self.alloc_inode) THEN self.alloc_name
    ELSE IF IsNone(self.alloc_name) THEN self.alloc_inode
    ELSE Some(FALSE)

is_allocated(self) ==
    IF self.alloc_inode = Some(TRUE) /\ self.alloc_name = Some(TRUE) THEN Some(TRUE)
    ELSE IF IsNone(self.alloc_inode) /\ IsNone(self.alloc_name) THEN self.alloc
    ELSE Some(FALSE)

\* an assignment to one of the public allocation fields of the file
SetAlloc ==
    /\ prof = "alloc"
    /\ \E v \in OptBool : v # fo.alloc /\ fo' = [fo EXCEPT !.alloc = v]
    /\ answer' = None
    /\ UNCHANGED <<prof, doc, written, brs, glommed, bench, it_stack, yielded, calls, ext, pushed>>
    /\ UNCHANGED readerVars

SetAllocInode ==
    /\ prof = "alloc"
    /\ \E v \in OptBool : v # fo.alloc_inode /\ fo' = [fo EXCEPT !.alloc_inode = v]
    /\ answer' = None
    /\ UNCHANGED <<prof, doc, written, brs, glommed, bench, it_stack, yielded, calls, ext, pushed>>
    /\ UNCHANGED readerVars

SetAllocName ==
    /\ prof = "alloc"
    /\ \E v \in OptBool : v # fo.alloc_name /\ fo' = [fo EXCEPT !.alloc_name = v]
    /\ answer' = None
    /\ UNCHANGED <<prof, doc, written, brs, glommed, bench, it_stack, yielded, calls, ext, pushed>>
    /\ UNCHANGED readerVars

IsAllocated ==
    /\ prof = "alloc"
    /\ IsNone(answer)
    /\ answer' = Some(is_allocated(fo))
    /\ UNCHANGED <<prof, fo, doc, written, brs, glommed, bench, it_stack, yielded, calls, ext, pushed>>
    /\ UNCHANGED readerVars

InitAlloc ==
    /\ prof = "alloc"
    /\ InitReader
    /\ doc = DFXMLObjectNew
    /\ written = None
    /\ brs = ByteRunsNew
    /\ glommed = <<>>
    /\ fo \in {FileObjectNew, with_filename(StrA), with_filename(StrX)}
    /\ answer = None
    /\ bench = <<>>
    /\ it_stack = None
    /\ yielded = <<>>
    /\ calls = DefaultNamespaces
    /\ ext = ExternalsNew
    /\ pushed = <<>>

NextAlloc == SetAlloc \/ SetAllocInode \/ SetAllocName \/ IsAllocated

SpecAlloc == InitAlloc /\ [][NextAlloc]_vars

\* C12: is_allocated answers true when the inode flag and the name flag are
\* both present and both true, false when both are present and one of them is
\* false, false when exactly one of the two is present whatever its value,
\* and the value of alloc (possibly absent) when neither is present.
C12_IsAllocatedTable ==
    (prof = "alloc" /\ IsSome(answer)) =>
        LET v == Unwrap(answer)
            i == fo.alloc_inode
            n == fo.alloc_name
        IN  /\ (IsSome(i) /\ IsSome(n) /\ Unwrap(i) /\ Unwrap(n)) => v = Some(TRUE)
            /\ (IsSome(i) /\ IsSome(n) /\ ~(Unwrap(i) /\ Unwrap(n))) => v = Some(FALSE)
            /\ (IsSome(i) # IsSome(n)) => v = Some(FALSE)
            /\ (IsNone(i) /\ IsNone(n)) => v = fo.alloc

\* a file with alloc true and only a true inode flag was answered false
C12_Case ==
    /\ prof = "alloc"
    /\ fo.alloc = Some(TRUE)
    /\ fo.alloc_inode = Some(TRUE)
    /\ IsNone(fo.alloc_name)
    /\ answer = Some(Some(FALSE))

(***************************************************************************)
(* Documents of any nesting, built bottom-up through the append methods,   *)
(* and the depth-first iterator over their descendants.                    *)
(***************************************************************************)
MaxEntities == 4

MaxBench == 2

Rev(s) == [i \in 1..Len(s) |-> s[Len(s) + 1 - i]]

\* A DFXMLChild: the kind of the entity (by its element name) and the entity
DFXMLChild(kind, obj) == [kind |-> kind, obj |-> obj]

Children(kind, cs) == [i \in 1..Len(cs) |-> DFXMLChild(kind, cs[i])]

KindOrder ==
    <<"diskimageobject", "partitionsystemobject", "partitionobject", "volume",
      "fileobject">>

\* The descendants of an entity in depth-first order: at every node the
\* children by kind in KindOrder, every child followed by its own descendants
RECURSIVE DescendantsFrom(_, _, _), Forest(_, _)
DescendantsFrom(kind, c, k) ==
    IF k > Len(KindOrder) THEN <<>>
    ELSE (IF KindOrder[k] \in AllowedChildren(kind)
          THEN Forest(KindOrder[k], c[ListOf(KindOrder[k])])
          ELSE <<>>) \o DescendantsFrom(kind, c, k + 1)

Forest(kind, cs) ==
    IF cs = <<>> THEN <<>>
    ELSE <<DFXMLChild(kind, Head(cs))>> \o DescendantsFrom(kind, Head(cs), 1)
         \o Forest(kind, Tail(cs))

Descendants(d) == DescendantsFrom("dfxml", d, 1)

RECURSIVE BenchCount(_)
BenchCount(b) ==
    IF b = <<>> THEN 0
    ELSE 1 + Len(DescendantsFrom(Head(b).kind, Head(b).obj, 1)) + BenchCount(Tail(b))

\* The number of entities constructed so far
Made == Len(Descendants(doc)) + BenchCount(bench)

\* A new entity, told apart from the others by a serial number in one field
NewEntity(kind, n) ==
    CASE kind = "diskimageobject" -> [DiskImageObjectNew EXCEPT !.image_size = Some(n)]
      [] kind = "partitionsystemobject" ->
           [PartitionSystemObjectNew EXCEPT !.pstype_str = Some(ToDecString(n))]
      [] kind = "partitionobject" ->
           [PartitionObjectNew EXCEPT !.partition_index = Some(n)]
      [] kind = "volume" -> [VolumeObjectNew EXCEPT !.block_size = Some(n)]
      [] OTHER -> [FileObjectNew EXCEPT !.id = Some(n)]

\* parent.append_<kind>(child)
AppendChild(parent, kind, child) == [parent EXCEPT ![ListOf(kind)] = Append(@, child)]

BuildingTree ==
    prof = "tree" /\ IsNone(it_stack) /\ IsNone(answer) /\ IsNone(written)

\* <Kind>Object::new() for a container that will be appended to the
\* container under construction, or to the document
NewContainer ==
    /\ BuildingTree
    /\ Made < MaxEntities
    /\ Len(bench) < MaxBench
    /\ \E kind \in ContainerNames :
         /\ bench # <<>> => kind \in AllowedChildren(Last(bench).kind)
         /\ bench' = Append(bench, DFXMLChild(kind, NewEntity(kind, Made + 1)))
    /\ UNCHANGED <<prof, doc, written, brs, glommed, fo, answer, it_stack, yielded, calls, ext, pushed>>
    /\ UNCHANGED readerVars

\* append_file(FileObject) on the container under construction, or on the document
NewFile ==
    /\ BuildingTree
    /\ Made < MaxEntities
    /\ LET f == NewEntity("fileobject", Made + 1)
       IN  IF bench = <<>>
           THEN doc' = append_file(doc, f) /\ UNCHANGED bench
           ELSE /\ bench' = [bench EXCEPT ![Len(bench)].obj = append_file(@, f)]
                /\ UNCHANGED doc
    /\ UNCHANGED <<prof, written, brs, glommed, fo, answer, it_stack, yielded, calls, ext, pushed>>
    /\ UNCHANGED readerVars

\* the container under construction is appended to the one it was made for
Attach ==
    /\ BuildingTree
    /\ bench # <<>>
    /\ LET c == Last(bench)
       IN  IF Len(bench) = 1
           THEN doc' = AppendChild(doc, c.kind, c.obj) /\ bench' = <<>>
           ELSE /\ bench' = [Front(bench) EXCEPT ![Len(bench) - 1].obj =
                                 AppendChild(@, c.kind, c.obj)]
                /\ UNCHANGED doc
    /\ UNCHANGED <<prof, written, brs, glommed, fo, answer, it_stack, yielded, calls, ext, pushed>>
    /\ UNCHANGED readerVars

\* DFXMLIterator::new
DFXMLIteratorNew(d) ==
    Children("fileobject", Rev(d.files))
    \o Children("volume", Rev(d.volumes))
    \o Children("partitionobject", Rev(d.partitions))
    \o Children("partitionsystemobject", Rev(d.partition_systems))
    \o Children("diskimageobject", Rev(d.disk_images))

push_children_forward(st, child) ==
    LET c == child.obj
    IN  CASE child.kind = "diskimageobject" ->
               st \o Children("fileobject", c.files)
                  \o Children("volume", c.volumes)
                  \o Children("partitionobject", c.partitions)
                  \o Children("partitionsystemobject", c.partition_systems)
          [] child.kind = "partitionsystemobject" ->
               st \o Children("fileobject", c.files)
                  \o Children("partitionobject", c.partitions)
          [] child.kind = "partitionobject" ->
               st \o Children("fileobject", c.files)
                  \o Children("volume", c.volumes)
                  \o Children("partitionobject", c.partitions)
                  \o Children("partitionsystemobject", c.partition_systems)
          [] child.kind = "volume" ->
               st \o Children("fileobject", c.files)
                  \o Children("volume", c.volumes)
                  \o Children("diskimageobject", c.disk_images)
          [] OTHER -> st

\* DFXMLIterator::push_children
push_children(st, child) ==
    LET c == child.obj
    IN  CASE child.kind = "diskimageobject" ->
               st \o Children("fileobject", Rev(c.files))
                  \o Children("volume", Rev(c.volumes))
                  \o Children("partitionobject", Rev(c.partitions))
                  \o Children("partitionsystemobject", Rev(c.partition_systems))
          [] child.kind = "partitionsystemobject" ->
               st \o Children("fileobject", Rev(c.files))
                  \o Children("partitionobject", Rev(c.partitions))
          [] child.kind = "partitionobject" ->
               st \o Children("fileobject", Rev(c.files))
                  \o Children("volume", Rev(c.volumes))
                  \o Children("partitionobject", Rev(c.partitions))
                  \o Children("partitionsystemobject", Rev(c.partition_systems))
          [] child.kind = "volume" ->
               st \o Children("fileobject", Rev(c.files))
                  \o Children("volume", Rev(c.volumes))
                  \o Children("diskimageobject", Rev(c.disk_images))
          [] OTHER -> st

\* doc.iter_descendants()
IterDescendants ==
    /\ BuildingTree
    /\ bench = <<>>
    /\ it_stack' = Some(DFXMLIteratorNew(doc))
    /\ UNCHANGED <<prof, doc, written, brs, glommed, fo, answer, bench, yielded, calls, ext, pushed>>
    /\ UNCHANGED readerVars

\* DFXMLIterator::next, when it yields an item
IterNext ==
    /\ prof = "tree"
    /\ IsSome(it_stack)
    /\ Unwrap(it_stack) # <<>>
    /\ LET child == Last(Unwrap(it_stack))
       IN  /\ it_stack' = Some(push_children(Front(Unwrap(it_stack)), child))
           /\ yielded' = Append(yielded, child)
    /\ UNCHANGED <<prof, doc, written, brs, glommed, fo, answer, bench, calls, ext, pushed>>
    /\ UNCHANGED readerVars

InitTree == prof = "tree" /\ InitReader /\ InitOther

IsPrefix(s, t) == Len(s) <= Len(t) /\ s = SubSeq(t, 1, Len(s))

\* C13: iter_descendants yields the descendants of the document in
\* depth-first order, every one exactly once: what it has yielded so far is
\* the beginning of the depth-first list of the descendants (a container
\* before its own descendants, these before its next sibling, children by
\* kind in the order disk images, partition systems, partitions, volumes,
\* files, insertion order within a kind), and all of that list once the
\* iterator is exhausted.
C13_DepthFirstOrder ==
    (prof = "tree" /\ IsSome(it_stack)) =>
        /\ IsPrefix(yielded, Descendants(doc))
        /\ Unwrap(it_stack) = <<>> => yielded = Descendants(doc)

\* The iterator went through a document holding a volume with a nested
\* volume that holds a file, and a file of its own appended before the volume
C13_Case ==
    /\ prof = "tree"
    /\ it_stack = Some(<<>>)
    /\ Len(yielded) = 4
    /\ Len(doc.files) = 1
    /\ Len(doc.volumes) = 1
    /\ Len(doc.volumes[1].volumes) = 1
    /\ Len(doc.volumes[1].volumes[1].files) = 1
    /\ doc.files[1].id = Some(1)

\* doc.iter_files().collect()
IterFiles ==
    /\ BuildingTree
    /\ bench = <<>>
    /\ answer' = Some(iter_files(doc))
    /\ UNCHANGED <<prof, doc, written, brs, glommed, fo, bench, it_stack, yielded, calls, ext, pushed>>
    /\ UNCHANGED readerVars

\* The files among the descendants of a document
FilesIn(items) == SelectSeq(items, LAMBDA c : c.kind = "fileobject")

Occurrences(s, x) == Cardinality({i \in 1..Len(s) : s[i] = x})

\* C14: iter_files yields every file of the document exactly once, the
\* files directly under the document and those at any depth under its disk
\* images, partition systems, partitions and volumes.
C14_IterFilesAll ==
    (prof = "tree" /\ IsSome(answer)) =>
        /\ \A i \in 1..Len(FilesIn(Descendants(doc))) :
              Occurrences(Unwrap(answer), FilesIn(Descendants(doc))[i].obj) = 1
        /\ Len(Unwrap(answer)) = Len(FilesIn(Descendants(doc)))

\* iter_files ran on a document whose only file is in a volume nested in a volume
C14_Case ==
    /\ prof = "tree"
    /\ IsSome(answer)
    /\ Len(Unwrap(answer)) = 1
    /\ Len(doc.volumes) = 1
    /\ Len(doc.volumes[1].volumes) = 1
    /\ Len(doc.volumes[1].volumes[1].files) = 1



\* parse(Cursor::new(to_string(&doc))) on a finished document
WriteTree ==
    /\ BuildingTree
    /\ bench = <<>>
    /\ written' = Some(parse(write(doc)))
    /\ UNCHANGED <<prof, doc, brs, glommed, fo, answer, bench, it_stack, yielded, calls, ext, pushed>>
    /\ UNCHANGED readerVars

NextTree ==
    \/ NewContainer
    \/ NewFile
    \/ Attach
    \/ IterDescendants
    \/ IterNext
    \/ IterFiles
    \/ WriteTree

SpecTree == InitTree /\ [][NextTree]_vars

\* The serial number of an entity, as text
SerialOf(c) ==
    CASE c.kind = "diskimageobject" -> ToDecString(Unwrap(c.obj.image_size))
      [] c.kind = "partitionsystemobject" -> Unwrap(c.obj.pstype_str)
      [] c.kind = "partitionobject" -> ToDecString(Unwrap(c.obj.partition_index))
      [] c.kind = "volume" -> ToDecString(Unwrap(c.obj.block_size))
      [] OTHER -> ToDecString(Unwrap(c.obj.id))

OpenMark(kind, serial) == [open |-> TRUE, kind |-> kind, serial |-> serial]

CloseMark(kind) == [open |-> FALSE, kind |-> kind, serial |-> <<>>]

\* The entity elements a text must hold for an entity's children: for every
\* child an element of its kind enclosing the elements of its own children,
\* the children by kind in KindOrder and in insertion order within a kind
RECURSIVE OutlineFrom(_, _, _), OutlineForest(_, _)
OutlineFrom(kind, c, k) ==
    IF k > Len(KindOrder) THEN <<>>
    ELSE (IF KindOrder[k] \in AllowedChildren(kind)
          THEN OutlineForest(KindOrder[k], c[ListOf(KindOrder[k])])
          ELSE <<>>) \o OutlineFrom(kind, c, k + 1)

OutlineForest(kind, cs) ==
    IF cs = <<>> THEN <<>>
    ELSE <<OpenMark(kind, SerialOf(DFXMLChild(kind, Head(cs))))>>
         \o OutlineFrom(kind, Head(cs), 1)
         \o <<CloseMark(kind)>>
         \o OutlineForest(kind, Tail(cs))

\* The entity elements of a written text: the start and end tags of entity
\* elements, a start tag with the text of the leaf that follows it
RECURSIVE OutlineOf(_, _)
OutlineOf(ts, i) ==
    IF i > Len(ts) THEN <<>>
    ELSE (IF ts[i].name \in EntityNames /\ ts[i].kind = "Start"
          THEN <<OpenMark(ts[i].name,
                          IF i + 2 <= Len(ts) /\ ts[i + 2].kind = "Text"
                          THEN ts[i + 2].text ELSE <<>>)>>
          ELSE IF ts[i].name \in EntityNames /\ ts[i].kind = "End"
          THEN <<CloseMark(ts[i].name)>>
          ELSE <<>>) \o OutlineOf(ts, i + 1)

\* C15: for every container at every depth the writer emits one element per
\* child the container owns, the children grouped by kind in the order disk
\* images, partition systems, partitions, volumes, files and in insertion
\* order within a kind.
C15_WriterEmitsEveryChild ==
    (prof = "tree" /\ IsSome(written)) =>
        OutlineOf(write(doc), 1) = OutlineFrom("dfxml", doc, 1)

\* A document with a disk image holding a partition and a volume, in the
\* order volume then partition, and a file in the volume, has been written
C15_Case ==
    /\ prof = "tree"
    /\ IsSome(written)
    /\ Len(doc.disk_images) = 1
    /\ Len(doc.disk_images[1].partitions) = 1
    /\ Len(doc.disk_images[1].volumes) = 1
    /\ Len(doc.disk_images[1].volumes[1].files) = 1
    /\ doc.disk_images[1].volumes[1].block_size = Some(2)
    /\ OutlineOf(write(doc), 1) = OutlineFrom("dfxml", doc, 1)

(***************************************************************************)
(* The metadata of a Document: creator information, libraries, namespaces. *)
(***************************************************************************)
MaxLibs == 2

LibraryChoices ==
    {[name |-> Some(StrA), version |-> Some(Str1)], [name |-> Some(StrX), version |-> None]}

MaxNsCalls == 3

NsPrefixes == {<<"dc">>, <<"x">>}

NsUris == {<<"urn:a">>, <<"urn:b">>}

BuildingMeta == prof = "meta" /\ IsNone(written)

\* doc.program = Some(..), doc.command_line = Some(..)
SetProgram ==
    /\ BuildingMeta
    /\ \/ IsNone(doc.program) /\ doc' = [doc EXCEPT !.program = Some(StrA)]
       \/ IsNone(doc.command_line) /\ doc' = [doc EXCEPT !.command_line = Some(StrX)]
    /\ UNCHANGED <<prof, written, brs, glommed, fo, answer, bench, it_stack, yielded, calls, ext, pushed>>
    /\ UNCHANGED readerVars

\* doc.add_creator_library(lib)
AddCreatorLibrary ==
    /\ BuildingMeta
    /\ Len(doc.creator_libraries) < MaxLibs
    /\ \E lib \in LibraryChoices : doc' = add_creator_library(doc, lib)
    /\ UNCHANGED <<prof, written, brs, glommed, fo, answer, bench, it_stack, yielded, calls, ext, pushed>>
    /\ UNCHANGED readerVars

\* doc.add_build_library(lib)
AddBuildLibrary ==
    /\ BuildingMeta
    /\ Len(doc.build_libraries) < MaxLibs
    /\ \E lib \in LibraryChoices : doc' = add_build_library(doc, lib)
    /\ UNCHANGED <<prof, written, brs, glommed, fo, answer, bench, it_stack, yielded, calls, ext, pushed>>
    /\ UNCHANGED readerVars

\* doc.add_namespace(prefix, uri)
AddNamespace ==
    /\ BuildingMeta
    /\ Len(calls) < Len(DefaultNamespaces) + MaxNsCalls
    /\ \E prefix \in NsPrefixes, uri \in NsUris :
         /\ doc' = add_namespace(doc, prefix, uri)
         /\ calls' = Append(calls, <<prefix, uri>>)
    /\ UNCHANGED <<prof, written, brs, glommed, fo, answer, bench, it_stack, yielded, ext, pushed>>
    /\ UNCHANGED readerVars

\* parse(Cursor::new(to_string(&doc)))
WriteMeta ==
    /\ BuildingMeta
    /\ written' = Some(parse(write(doc)))
    /\ UNCHANGED <<prof, doc, brs, glommed, fo, answer, bench, it_stack, yielded, calls, ext, pushed>>
    /\ UNCHANGED readerVars

InitMeta == prof = "meta" /\ InitReader /\ InitOther

NextMeta ==
    \/ SetProgram
    \/ AddCreatorLibrary
    \/ AddBuildLibrary
    \/ AddNamespace
    \/ WriteMeta

SpecMeta == InitMeta /\ [][NextMeta]_vars

\* The positions of the start tags of build_environment blocks in a text
BuildEnvStarts(ts) ==
    {i \in 1..Len(ts) : ts[i].kind = "Start" /\ ts[i].name = "build_environment"}

\* The block opened at i holds n library elements and nothing else
BuildEnvHolds(ts, i, n) ==
    /\ i + n + 1 <= Len(ts)
    /\ \A k \in (i + 1)..(i + n) : ts[k].kind = "Empty" /\ ts[k].name = "library"
    /\ ts[i + n + 1] = TEnd("build_environment")

\* C16: the written text of a Document, creator information or not, holds a
\* build_environment block if and only if the Document has at least one
\* build library, and the block holds one library element per build library.
C16_BuildEnvironmentWritten ==
    (prof = "meta" /\ IsSome(written)) =>
        /\ (doc.build_libraries # <<>>) <=> (BuildEnvStarts(write(doc)) # {})
        /\ \A i \in BuildEnvStarts(write(doc)) :
              BuildEnvHolds(write(doc), i, Len(doc.build_libraries))

\* A Document with a program name and two build libraries has been written
\* with its build_environment block
C16_Case ==
    /\ prof = "meta"
    /\ IsSome(written)
    /\ IsSome(doc.program)
    /\ Len(doc.build_libraries) = 2
    /\ Cardinality(BuildEnvStarts(write(doc))) = 1

\* The first call of add_namespace made for a prefix
FirstCall(p) ==
    CHOOSE i \in 1..Len(calls) : calls[i][1] = p /\ \A j \in 1..(i - 1) : calls[j][1] # p

\* C20: after any sequence of add_namespace calls (those of new() included)
\* the registered prefixes are those of the calls, and every prefix maps to
\* the URI of the first call made for it: a later call for a registered
\* prefix changes nothing.
C20_FirstNamespaceWins ==
    /\ DOMAIN doc.namespaces = {calls[i][1] : i \in 1..Len(calls)}
    /\ \A p \in DOMAIN doc.namespaces : doc.namespaces[p] = calls[FirstCall(p)][2]

\* A prefix was registered twice with different URIs, and a default prefix
\* was registered again
C20_Case ==
    /\ prof = "meta"
    /\ Len(calls) = Len(DefaultNamespaces) + 3
    /\ calls[5] = <<<<"x">>, <<"urn:a">>>>
    /\ calls[6] = <<<<"x">>, <<"urn:b">>>>
    /\ calls[7] = <<<<"dc">>, <<"urn:b">>>>
    /\ doc.namespaces[<<"x">>] = <<"urn:a">>
    /\ doc.namespaces[<<"dc">>] = XMLNS_DC

(***************************************************************************)
(* One file written and parsed back: its mode, its meta_type and its three *)
(* byte-run slots.                                                         *)
(***************************************************************************)
MaxMode == 8

\* Every mode up to MaxMode, and rw-r--r--, rwxr-xr-x and rwsrwsrwt
Modes == (0..MaxMode) \cup {420, 493, 4095}

MetaTypes ==
    {"Regular", "Directory", "SymbolicLink", "BlockDevice", "CharacterDevice",
     "Fifo", "Socket", "Shadow", "Virtual", "Unknown"}

BrsSlots == {"data_brs", "inode_brs", "name_brs"}

\* ByteRuns::new() or ByteRuns::with_facet(f), then two push
RunLists ==
    {push(push([ByteRunsNew EXCEPT !.facet = f], with_img_offset(0, 2)),
          with_img_offset(8, 1)) :
        f \in {None, Some("Data"), Some("Inode"), Some("Name")}}

BuildingFile == prof = "file" /\ IsNone(written)

\* file.mode = Some(m)
SetMode ==
    /\ BuildingFile
    /\ IsNone(fo.mode)
    /\ \E m \in Modes : fo' = [fo EXCEPT !.mode = Some(m)]
    /\ UNCHANGED <<prof, doc, written, brs, glommed, answer, bench, it_stack, yielded, calls, ext, pushed>>
    /\ UNCHANGED readerVars

\* file.meta_type = Some(t)
SetMetaType ==
    /\ BuildingFile
    /\ IsNone(fo.meta_type)
    /\ \E t \in MetaTypes : fo' = [fo EXCEPT !.meta_type = Some(t)]
    /\ UNCHANGED <<prof, doc, written, brs, glommed, answer, bench, it_stack, yielded, calls, ext, pushed>>
    /\ UNCHANGED readerVars

\* file.data_brs = Some(runs), file.inode_brs = Some(runs), file.name_brs = Some(runs)
SetByteRuns ==
    /\ BuildingFile
    /\ \E slot \in BrsSlots, runs \in RunLists :
         /\ IsNone(fo[slot])
         /\ fo' = [fo EXCEPT ![slot] = Some(runs)]
    /\ UNCHANGED <<prof, doc, written, brs, glommed, answer, bench, it_stack, yielded, calls, ext, pushed>>
    /\ UNCHANGED readerVars

\* doc.append_file(file); parse(Cursor::new(to_string(&doc)))
WriteFile ==
    /\ BuildingFile
    /\ doc' = append_file(doc, fo)
    /\ written' = Some(parse(write(append_file(doc, fo))))
    /\ UNCHANGED <<prof, brs, glommed, fo, answer, bench, it_stack, yielded, calls, ext, pushed>>
    /\ UNCHANGED readerVars

InitFile == prof = "file" /\ InitReader /\ InitOther

NextFile == SetMode \/ SetMetaType \/ SetByteRuns \/ WriteFile

SpecFile == InitFile /\ [][NextFile]_vars

\* The file has been written and the text parsed back to a document with one file
ReadBack ==
    /\ prof = "file"
    /\ IsSome(written)
    /\ Unwrap(written).tag = "Ok"
    /\ Len(Unwrap(Unwrap(written).doc).files) = 1

FileReadBack == Unwrap(Unwrap(written).doc).files[1]

\* C17: a file with mode m, written and parsed back, has mode m.
C17_ModeRoundTrip ==
    (prof = "file" /\ IsSome(written) /\ IsSome(fo.mode)) =>
        (ReadBack /\ FileReadBack.mode = fo.mode)

\* The mode 7 has been written and read back as 7
C17_Case == ReadBack /\ fo.mode = Some(7) /\ FileReadBack.mode = Some(7)

\* C18: a file with a meta_type, written and parsed back, has the same meta_type.
C18_MetaTypeRoundTrip ==
    (prof = "file" /\ IsSome(written) /\ IsSome(fo.meta_type)) =>
        (ReadBack /\ FileReadBack.meta_type = fo.meta_type)

\* A directory has been written and read back with some meta_type
C18_Case == ReadBack /\ fo.meta_type = Some("Directory") /\ IsSome(FileReadBack.meta_type)

\* C19: every populated byte-run slot of a file written and parsed back
\* holds the runs it held, in the same order, whatever facet its list records.
C19_ByteRunSlotsRoundTrip ==
    (prof = "file" /\ IsSome(written)) =>
        \A slot \in BrsSlots :
            IsSome(fo[slot]) =>
                /\ ReadBack
                /\ IsSome(FileReadBack[slot])
                /\ Unwrap(FileReadBack[slot]).runs = Unwrap(fo[slot]).runs

\* The three slots were populated, with lists recording facets other than
\* their slot's, and each came back in its slot
C19_Case ==
    /\ ReadBack
    /\ \A slot \in BrsSlots :
          /\ IsSome(fo[slot])
          /\ IsSome(FileReadBack[slot])
          /\ Unwrap(FileReadBack[slot]).runs = Unwrap(fo[slot]).runs
    /\ Unwrap(fo.data_brs).facet = Some("Inode")
    /\ Unwrap(fo.inode_brs).facet = Some("Name")

(***************************************************************************)
(* Externals: the list of elements from other namespaces.                  *)
(***************************************************************************)
MaxPushes == 3

\* ExternalElement::new(tag) and ExternalElement::with_namespace(ns, tag)
ExternalElements ==
    {[namespace |-> ns, tag_name |-> t, attributes |-> <<>>, text |-> None,
      children |-> <<>>] :
        ns \in {None, Some(XMLNS_DFXML), Some(XMLNS_DC)}, t \in {StrA, StrX}}

\* Externals::push: panic tells whether the call panicked
externals_push(self, element) ==
    IF IsSome(element.namespace) /\ Unwrap(element.namespace) = XMLNS_DFXML
    THEN [panic |-> TRUE, externals |-> self]
    ELSE [panic |-> FALSE, externals |-> [self EXCEPT !.elements = Append(@, element)]]

try_push_then_check(self, element) ==
    IF IsSome(element.namespace) /\ Unwrap(element.namespace) = XMLNS_DFXML
    THEN [ok |-> FALSE, externals |-> [self EXCEPT !.elements = Append(@, element)]]
    ELSE [ok |-> TRUE, externals |-> [self EXCEPT !.elements = Append(@, element)]]

\* Externals::try_push: ok tells whether the call returned Ok(())
try_push(self, element) ==
    IF IsSome(element.namespace) /\ Unwrap(element.namespace) = XMLNS_DFXML
    THEN [ok |-> FALSE, externals |-> self]
    ELSE [ok |-> TRUE, externals |-> [self EXCEPT !.elements = Append(@, element)]]

PushCall(method, element) == [method |-> method, element |-> element]

\* ext.push(element)
Push ==
    /\ prof = "ext"
    /\ status = "running"
    /\ Len(pushed) < MaxPushes
    /\ \E element \in ExternalElements :
         /\ pushed' = Append(pushed, PushCall("push", element))
         /\ ext' = externals_push(ext, element).externals
         /\ status' = IF externals_push(ext, element).panic THEN "panicked" ELSE status
    /\ answer' = None
    /\ UNCHANGED <<prof, rd, open, tokens, events, yield_at, at_call, asm, parse_result,
                   doc, written, brs, glommed, fo, bench, it_stack, yielded, calls>>

\* ext.try_push(element)
TryPush ==
    /\ prof = "ext"
    /\ status = "running"
    /\ Len(pushed) < MaxPushes
    /\ \E element \in ExternalElements :
         /\ pushed' = Append(pushed, PushCall("try_push", element))
         /\ ext' = try_push(ext, element).externals
         /\ answer' = Some(IF try_push(ext, element).ok THEN "Ok" ELSE "Err")
    /\ UNCHANGED <<prof, doc, written, brs, glommed, fo, bench, it_stack, yielded, calls>>
    /\ UNCHANGED readerVars

InitExt == prof = "ext" /\ InitReader /\ InitOther

NextExt == Push \/ TryPush

SpecExt == InitExt /\ [][NextExt]_vars

InDfxmlNamespace(element) == element.namespace = Some(XMLNS_DFXML)

\* The elements of the calls made with an element outside the DFXML namespace
RECURSIVE Accepted(_)
Accepted(cs) ==
    IF cs = <<>> THEN <<>>
    ELSE IF InDfxmlNamespace(Last(cs).element) THEN Accepted(Front(cs))
    ELSE Append(Accepted(Front(cs)), Last(cs).element)

\* C21: after any sequence of push and try_push calls the list holds no
\* element of the DFXML namespace: it holds exactly the other elements
\* passed in, in call order; push panics and try_push returns an error for
\* an element of the DFXML namespace, and for no other.
C21_ExternalsRejectDfxml ==
    /\ \A i \in 1..Len(ext.elements) : ~InDfxmlNamespace(ext.elements[i])
    /\ ext.elements = Accepted(pushed)
    /\ pushed # <<>> =>
          /\ (status = "panicked") <=>
                (Last(pushed).method = "push" /\ InDfxmlNamespace(Last(pushed).element))
          /\ (answer = Some("Err")) <=>
                (Last(pushed).method = "try_push" /\ InDfxmlNamespace(Last(pushed).element))
          /\ (answer = Some("Ok")) <=>
                (Last(pushed).method = "try_push" /\ ~InDfxmlNamespace(Last(pushed).element))

\* An element was accepted, try_push then refused one of the DFXML
\* namespace, and push refused another
C21_Case ==
    /\ prof = "ext"
    /\ Len(pushed) = 3
    /\ ~InDfxmlNamespace(pushed[1].element)
    /\ pushed[2].method = "try_push" /\ InDfxmlNamespace(pushed[2].element)
    /\ pushed[3].method = "push" /\ InDfxmlNamespace(pushed[3].element)
    /\ Len(ext.elements) = 1
    /\ status = "panicked"

(***************************************************************************)
(* Hashes::set and Hashes::has_any on the hashes of a file.                *)
(***************************************************************************)
HashValues == {StrAb, StrX}

\* file.hashes.set(t, value)
SetHashWith(t, value) ==
    /\ prof = "hash"
    /\ fo' = [fo EXCEPT !.hashes = HashesSet(@, t, value)]
    /\ answer' = None
    /\ UNCHANGED <<prof, doc, written, brs, glommed, bench, it_stack, yielded, calls, ext, pushed>>
    /\ UNCHANGED readerVars

SetHash == \E t \in HashTypes, value \in HashValues : SetHashWith(t, value)

\* file.hashes.has_any()
HasAny ==
    /\ prof = "hash"
    /\ IsNone(answer)
    /\ answer' = Some(HashesHasAny(fo.hashes))
    /\ UNCHANGED <<prof, doc, written, brs, glommed, fo, bench, it_stack, yielded, calls, ext, pushed>>
    /\ UNCHANGED readerVars

InitHash == prof = "hash" /\ InitReader /\ InitOther

NextHash == SetHash \/ HasAny

SpecHash == InitHash /\ [][NextHash]_vars

\* The number of slots of a Hashes value that hold a digest
SlotsSet(h) == Cardinality({t \in HashTypes : h[t] # None})

\* C22: a set call for one algorithm stores the digest in that algorithm's
\* slot and leaves the six other slots as they were, and has_any answers
\* true exactly when at least one of the seven slots is set.
C22_HashesSetFrame ==
    /\ [][\A t \in HashTypes, value \in HashValues :
            SetHashWith(t, value) =>
                /\ IsSome(fo'.hashes[t])
                /\ \A u \in HashTypes \ {t} : fo'.hashes[u] = fo.hashes[u]]_vars
    /\ []((prof = "hash" /\ IsSome(answer)) => (Unwrap(answer) <=> SlotsSet(fo.hashes) >= 1))

\* md5 and sha256 are set, the five other slots are absent, has_any answered true
C22_Case ==
    /\ prof = "hash"
    /\ IsSome(fo.hashes["md5"])
    /\ IsSome(fo.hashes["sha256"])
    /\ SlotsSet(fo.hashes) = 2
    /\ answer = Some(TRUE)

(***************************************************************************)
(* Containers nested in a container of their own kind.                     *)
(***************************************************************************)
\* The pairs of start tags (outer, inner) of a container element directly
\* inside an element of the same name, both closed
SameKindNested ==
    {p \in (1..Len(tokens)) \X (1..Len(tokens)) :
        /\ tokens[p[1]].kind = "Start" /\ tokens[p[1]].name \in ContainerNames
        /\ tokens[p[2]].kind = "Start" /\ tokens[p[2]].name = tokens[p[1]].name
        /\ ParentIdx(p[2]) = p[1]
        /\ CloseOf(p[1]) > 0 /\ CloseOf(p[2]) > 0}

\* The well-formed value leaves written directly in the element opened at p
GoodLeavesOf(p) == {l \in TextLeaves : ParentIdx(l) = p /\ ~IsBadLeaf(l)}

\* The container events yielded at the close tag of the element opened at p
CarriedAtClose(p) ==
    {j \in 1..Len(events) :
        yield_at[j] = CloseOf(p) /\ events[j].type = CarrierOf(tokens[p].name)}

\* C23: when a container element is nested in an element of the same kind,
\* each of the two close tags yields its own container event, and the event
\* of the outer element carries the fields parsed for the outer element
\* before and after the inner one.
C23_SameKindNesting ==
    WellFormedDone =>
        \A p \in SameKindNested :
            /\ CarriedAtClose(p[2]) # {}
            /\ CarriedAtClose(p[1]) # {}
            /\ \A j \in CarriedAtClose(p[1]) : \A l \in GoodLeavesOf(p[1]) :
                  IsSome(Unwrap(events[j].obj)[FieldOf(tokens[l].name)])

\* A volume with a leaf, a nested volume and another leaf has been read to the end
C23_Case ==
    /\ WellFormedDone
    /\ \E p \in SameKindNested :
          \E a, b \in GoodLeavesOf(p[1]) : a < p[2] /\ CloseOf(p[2]) < b


(***************************************************************************)
(* The reader's state and its stack of saved states around a block.        *)
(***************************************************************************)
\* The elements whose start tag saves the state and whose end tag restores it
SavingNames == EntityNames \cup BlockNames

\* The reader after the first k tokens of the input, as parse_next leaves it
RECURSIVE ReaderAt(_)
ReaderAt(k) == IF k = 0 THEN ReaderNew ELSE ProcessToken(ReaderAt(k - 1), tokens[k]).r

\* The tags of saving elements consumed so far whose close tag is consumed
\* too: <<p, c>> with p the open tag and c the close tag (c = p for a
\* self-closing tag)
ClosedBlocks ==
    {pc \in (1..Len(tokens)) \X (1..Len(tokens)) :
        /\ tokens[pc[1]].name \in SavingNames
        /\ \/ tokens[pc[1]].kind = "Start" /\ pc[2] = CloseOf(pc[1])
           \/ tokens[pc[1]].kind = "Empty" /\ pc[2] = pc[1]}

\* The close tags of the root element <dfxml>
RootCloses == {c \in 1..Len(tokens) : tokens[c].kind = "End" /\ tokens[c].name = "dfxml"}

\* C24: right after the close tag of a container, a file, a creator block or
\* a build-environment block the reader's state and its stack of saved states
\* are what they were right before the matching open tag, at any depth, and
\* the stack is empty right before the root's close tag is handled.
C24_StateRestored ==
    /\ rd.state = ReaderAt(Len(tokens)).state
    /\ rd.state_stack = ReaderAt(Len(tokens)).state_stack
    /\ \A pc \in ClosedBlocks :
         /\ ReaderAt(pc[2]).state = ReaderAt(pc[1] - 1).state
         /\ ReaderAt(pc[2]).state_stack = ReaderAt(pc[1] - 1).state_stack
    /\ \A c \in RootCloses : ReaderAt(c - 1).state_stack = <<>>

\* a block closed two levels below the root, inside a creator block or with
\* a build environment closed in it, and the root closed after it
C24_Case ==
    /\ \E pc \in ClosedBlocks :
         /\ Len(ReaderAt(pc[1] - 1).state_stack) = 2
         /\ ReaderAt(pc[1] - 1).state # "InDfxml"
    /\ \E pc \in ClosedBlocks : tokens[pc[1]].name = "build_environment"
    /\ \E pc \in ClosedBlocks : tokens[pc[1]].name \in ContainerNames
    /\ RootCloses # {}
    /\ status = "ended"


(***************************************************************************)
(* A self-closing tag against its start tag followed by its end tag.       *)
(***************************************************************************)
\* The last token read is a self-closing tag and next() has nothing more to
\* hand out for it
SettledEmpty ==
    /\ tokens # <<>>
    /\ Last(tokens).kind = "Empty"
    /\ \/ status = "ended"
       \/ ~at_call
       \/ rd.state # "Done" /\ rd.pending_events = <<>>

\* The events yielded while token i was the last one read, in order
YieldedAt(i) ==
    LET J == {j \in 1..Len(events) : yield_at[j] = i}
    IN  IF J = {} THEN <<>> ELSE SubSeq(events, Min(J), Max(J))

\* What the reader does with <name attrs> followed by </name>
PairRun(r, tok) ==
    LET s == ProcessToken(r, TStart(tok.name, tok.attrs))
        e == ProcessToken(s.r, TEnd(tok.name))
    IN  [evs |-> s.ev \o e.ev, r |-> e.r]

\* C25: for every element name, the root and the containers included, a
\* self-closing tag makes the reader yield the same events in the same order
\* and leaves it in the same state as the start tag immediately followed by
\* the end tag, with no event of the tag left unyielded.
C25_EmptyIsStartThenEnd ==
    SettledEmpty =>
        LET pair == PairRun(ReaderAt(Len(tokens) - 1), Last(tokens))
        IN  /\ YieldedAt(Len(tokens)) = pair.evs
            /\ rd = pair.r

\* a self-closing root has been read and the stream has ended
C25_Case == SettledEmpty /\ Last(tokens).name = "dfxml" /\ status = "ended"


(***************************************************************************)
(* try_concat on two runs that carry any of the three offsets.             *)
(***************************************************************************)
OffsetKinds == {"img_offset", "fs_offset", "file_offset"}

\* A run with the three offsets and a length given as options
RunWith(img, fs, file, len) ==
    [ByteRunNew EXCEPT !.img_offset = img, !.fs_offset = fs, !.file_offset = file,
                       !.len = len]

\* The runs offered to try_concat: every combination of absent and present
\* offsets, short and long lengths, and two runs that fail its first tests
ConcatRuns ==
    {RunWith(img, fs, file, Some(len)) :
        img \in {None, Some(0), Some(2), Some(8), Some(MaxU64 - 1)},
        fs \in {None, Some(0), Some(2)},
        file \in {None, Some(0), Some(2), Some(8)},
        len \in {2, 8}}
    \cup {RunWith(Some(2), None, None, None),
          [with_img_offset(2, 2) EXCEPT !.fill = Some(0)]}

\* The build of the two profiles of this section
ConcatChecks == prof = "cat_checked"

\* l.try_concat(&n) on the pair drawn at the start
TryConcat ==
    /\ prof \in {"cat_checked", "cat_wrapping"}
    /\ status = "running"
    /\ LET c == try_concat(pushed[1], pushed[2], ConcatChecks)
       IN  /\ answer' = Some(c.run)
           /\ status' = IF c.panic THEN "panicked" ELSE "ended"
    /\ UNCHANGED <<prof, rd, open, tokens, events, yield_at, at_call, asm, parse_result,
                   doc, written, brs, glommed, fo, bench, it_stack, yielded, calls, ext,
                   pushed>>

InitConcat ==
    /\ prof \in {"cat_checked", "cat_wrapping"}
    /\ InitReader
    /\ doc = DFXMLObjectNew
    /\ written = None
    /\ brs = ByteRunsNew
    /\ glommed = <<>>
    /\ fo = FileObjectNew
    /\ answer = None
    /\ bench = <<>>
    /\ it_stack = None
    /\ yielded = <<>>
    /\ calls = DefaultNamespaces
    /\ ext = ExternalsNew
    /\ pushed \in {<<l, n>> : l \in ConcatRuns, n \in ConcatRuns}

NextConcat == TryConcat

SpecConcat == InitConcat /\ [][NextConcat]_vars

\* The tests of try_concat that come before the offsets
Compatible(l, n) ==
    /\ l.fill = n.fill
    /\ l.run_type = n.run_type
    /\ IsNone(l.uncompressed_len) /\ IsNone(n.uncompressed_len)
    /\ ~HashesHasAny(l.hashes) /\ ~HashesHasAny(n.hashes)

BothPresent(l, n, k) == IsSome(l[k]) /\ IsSome(n[k])

BothAbsent(l, n, k) == IsNone(l[k]) /\ IsNone(n[k])

\* l.offset + l.len = n.offset, as numbers
Adjacent(l, n, k) == Unwrap(l[k]) + Unwrap(l.len) = Unwrap(n[k])

Mergeable(l, n) ==
    /\ \A k \in OffsetKinds : BothAbsent(l, n, k) \/ (BothPresent(l, n, k) /\ Adjacent(l, n, k))
    /\ \E k \in OffsetKinds : BothPresent(l, n, k)

\* C26: for two compatible runs that both have a length, try_concat succeeds
\* if and only if every offset kind is absent in both runs or present in both
\* with L.offset + L.len = N.offset, and at least one kind is present in both;
\* otherwise it returns nothing, even when another kind is contiguous.
C26_ConcatIffAllContiguous ==
    (status # "running" /\ Compatible(pushed[1], pushed[2])
        /\ IsSome(pushed[1].len) /\ IsSome(pushed[2].len)) =>
        /\ status = "ended"
        /\ IsSome(Unwrap(answer)) <=> Mergeable(pushed[1], pushed[2])

\* try_concat has answered on a pair with one contiguous kind and one kind
\* that is present in one run only
C26_Case ==
    /\ status = "ended"
    /\ Compatible(pushed[1], pushed[2])
    /\ IsSome(pushed[1].len) /\ IsSome(pushed[2].len)
    /\ BothPresent(pushed[1], pushed[2], "img_offset")
    /\ Adjacent(pushed[1], pushed[2], "img_offset")
    /\ IsSome(pushed[1].fs_offset) /\ IsNone(pushed[2].fs_offset)


(***************************************************************************)
(* glom on runs that carry any of the three offsets.                       *)
(***************************************************************************)
MaxOffsetRuns == 3

\* The runs a caller gloms here: the offsets absent or present in each kind,
\* short and long lengths
OffsetRuns ==
    {RunWith(img, fs, file, Some(len)) :
        img \in {None, Some(0), Some(2), Some(8)},
        fs \in {None, Some(0), Some(2)},
        file \in {None, Some(0)},
        len \in {2, 8}}

\* brs.glom(run) with a run of OffsetRuns
GlomOffsets ==
    /\ prof \in {"off_checked", "off_wrapping"}
    /\ status = "running"
    /\ Len(glommed) < MaxOffsetRuns
    /\ \E run \in OffsetRuns :
         /\ glommed' = Append(glommed, run)
         /\ GlomResult(glom(brs, run, prof = "off_checked"))
    /\ UNCHANGED <<prof, rd, open, tokens, events, yield_at, at_call, asm, parse_result,
                   doc, written, fo, answer, bench, it_stack, yielded, calls, ext, pushed>>

\* ByteRuns::total_len: total += run.len? over the runs, in u64
RECURSIVE TotalFrom(_, _, _)
TotalFrom(runs, total, checks) ==
    IF runs = <<>> THEN [panic |-> FALSE, value |-> Some(total)]
    ELSE IF IsNone(Head(runs).len) THEN [panic |-> FALSE, value |-> None]
    ELSE IF checks /\ Overflows(total, Unwrap(Head(runs).len))
    THEN [panic |-> TRUE, value |-> None]
    ELSE TotalFrom(Tail(runs), WrapAdd(total, Unwrap(Head(runs).len)), checks)

total_len(b, checks) == TotalFrom(b.runs, 0, checks)

\* brs.total_len(), the last call made on the collection
TotalLen ==
    /\ prof \in {"off_checked", "off_wrapping"}
    /\ status = "running"
    /\ glommed # <<>>
    /\ LET t == total_len(brs, prof = "off_checked")
       IN  /\ answer' = Some(t.value)
           /\ status' = IF t.panic THEN "panicked" ELSE "ended"
    /\ UNCHANGED <<prof, rd, open, tokens, events, yield_at, at_call, asm, parse_result,
                   doc, written, brs, glommed, fo, bench, it_stack, yielded, calls, ext,
                   pushed>>

InitGlomOffsets == prof \in {"off_checked", "off_wrapping"} /\ InitReader /\ InitOther

NextGlomOffsets == GlomOffsets \/ TotalLen

SpecGlomOffsets == InitGlomOffsets /\ [][NextGlomOffsets]_vars

\* What the merged run of l and n is said to be
MergedRun(l, n) ==
    [img_offset |-> l.img_offset, fs_offset |-> l.fs_offset, file_offset |-> l.file_offset,
     len |-> Some(Unwrap(l.len) + Unwrap(n.len)),
     fill |-> l.fill, run_type |-> l.run_type,
     uncompressed_len |-> None, hashes |-> HashesNew]

\* A call of glom that merged: it returned and the number of runs is the same
GlomMerged ==
    /\ glommed' # glommed
    /\ status' = "running"
    /\ Len(brs'.runs) = Len(brs.runs)

\* C27: whenever try_concat(L, N) succeeds the merged run has the length
\* L.len + N.len, L's offset of every kind, L's fill byte and run type, no
\* uncompressed length and no hashes, and glom replaces the last run by it
\* and leaves all earlier runs unchanged.
C27_MergedRun ==
    [][GlomMerged =>
         /\ Last(brs'.runs) = MergedRun(Last(brs.runs), Last(glommed'))
         /\ Front(brs'.runs) = Front(brs.runs)]_vars

\* a third run was merged into the second of two runs
C27_Case ==
    /\ Len(glommed) = 3
    /\ Len(brs.runs) = 2
    /\ status = "running"
    /\ brs.runs[1] = glommed[1]
    /\ brs.runs[2] # glommed[2]


\* C30: after any sequence of glom calls on an empty collection with runs
\* that all have a length, total_len is the sum of the lengths of all runs
\* passed in; each glom call changes the number of runs by 0 or by +1 and
\* leaves every run before the last one as it was.
C30_TotalLenAndFrame ==
    /\ [](status # "panicked")
    /\ [](status = "ended" => answer = Some(Some(SumLen(glommed))))
    /\ [][glommed' # glommed =>
            /\ Len(brs'.runs) - Len(brs.runs) \in {0, 1}
            /\ \A i \in 1..(Len(brs.runs) - 1) : brs'.runs[i] = brs.runs[i]]_vars

\* total_len was asked after three gloms of which one merged
C30_Case == status = "ended" /\ Len(glommed) = 3 /\ Len(brs.runs) = 2


(***************************************************************************)
(* The mode leaf of a file.                                                *)
(***************************************************************************)
\* The mode leaves <mode>digits</mode> of the files whose event was yielded
ModeLeaves ==
    {l \in TextLeaves :
        /\ tokens[l].name = "mode"
        /\ AllDigits(tokens[l + 1].text)
        /\ ParentIdx(l) > 0
        /\ tokens[ParentIdx(l)].name = "fileobject"
        /\ CloseOf(ParentIdx(l)) > 0}

\* The number a text of digits stands for in a base, if it is one
NumberIn(base, ds) ==
    IF ds # <<>> /\ \A i \in 1..Len(ds) : DigitVal(ds[i]) < base
    THEN Some(IF base = 8 THEN OctValue(ds) ELSE DecValue(ds))
    ELSE None

\* octal when the text begins with the digit zero, decimal otherwise
ModeOf(ds) == IF Head(ds) = "0" THEN NumberIn(8, ds) ELSE NumberIn(10, ds)

\* C28: for every mode leaf whose text consists of digits the file's mode is
\* the octal value of the text when it begins with the digit zero (0 gives 0,
\* 0644 gives 420) and its decimal value otherwise; the mode is absent only
\* when the text is not a number in that base.
C28_ModeLeaf ==
    \A l \in ModeLeaves :
        \A j \in CarriedAtClose(ParentIdx(l)) :
            Unwrap(events[j].obj).mode = ModeOf(tokens[l + 1].text)

\* a file with the mode leaf 0 and a file with the mode leaf 0644 were yielded
C28_Case ==
    /\ \E l \in ModeLeaves :
          tokens[l + 1].text = <<"0">> /\ CarriedAtClose(ParentIdx(l)) # {}
    /\ \E l \in ModeLeaves :
          tokens[l + 1].text = <<"0", "6", "4", "4">> /\ CarriedAtClose(ParentIdx(l)) # {}


(***************************************************************************)
(* Where the reader stores a leaf.                                         *)
(***************************************************************************)
\* The reader's slot for the entity of an element name
SlotOf(name) ==
    CASE name = "diskimageobject" -> "disk_image"
      [] name = "partitionsystemobject" -> "partition_system"
      [] name = "partitionobject" -> "partition"
      [] name = "volume" -> "volume"
      [] name = "fileobject" -> "file"
      [] OTHER -> "dfxml"

EntitySlots == {SlotOf(n) : n \in EntityNames}

\* This step reads the close tag of a leaf that lies directly inside an entity
LeafClosedInEntity ==
    /\ tokens' # tokens
    /\ Last(tokens').kind = "End"
    /\ Last(tokens').name \in AllLeafNames
    /\ Len(open) >= 2
    /\ open[Len(open) - 1].name \in EntityNames

\* C29: the value of a leaf is stored only on the entity whose element
\* directly encloses it: a leaf inside a disk image, partition system,
\* partition or file never changes the Document's metadata and never changes
\* the fields of an outer container that is still open.
C29_LeafStoredOnEnclosing ==
    [][LeafClosedInEntity =>
         /\ rd'.dfxml = rd.dfxml
         /\ \A s \in EntitySlots \ {SlotOf(open[Len(open) - 1].name)} : rd'[s] = rd[s]]_vars

\* a leaf was read inside an entity that lies in an open container of another
\* kind, and the container has a leaf of its own
C29_Case ==
    \E l \in TextLeaves :
        /\ ParentIdx(l) > 0
        /\ tokens[ParentIdx(l)].name \in EntityNames
        /\ ParentIdx(ParentIdx(l)) > 0
        /\ tokens[ParentIdx(ParentIdx(l))].name \in ContainerNames
        /\ tokens[ParentIdx(ParentIdx(l))].name # tokens[ParentIdx(l)].name
        /\ \E m \in TextLeaves : m < l /\ ParentIdx(m) = ParentIdx(ParentIdx(l))

====
